---------------------------- MODULE Spec2Model ----------------------------
(***************************************************************************)
(* Verification model of the botbourse analytics pages:                    *)
(*   - the screener      (ScreenerClient: filter + sort state),            *)
(*   - the sector page   (SectorsClient: sectorStats),                     *)
(*   - the portfolio simulator (PortfolioClient: holdings, capital,        *)
(*     local storage, derived weights and metrics).                        *)
(*                                                                         *)
(* Conventions.                                                            *)
(*   Strings that the code inspects character by character (ticker, name,  *)
(*   search text) are sequences of one-character strings.                  *)
(*   A nullable number is <<>> (null) or <<v>>; an empty number input is   *)
(*   <<>> ("" in the code) and a filled one <<v>>.                         *)
(*   Fractions are fixed point: returns in units of 1/1000, volatility in  *)
(*   units of 1/1000, volume ratio in units of 1/10.  Arithmetic is exact  *)
(*   (rationals by cross multiplication); IEEE rounding is not modelled,   *)
(*   the IEEE special values Infinity and NaN are.                         *)
(***************************************************************************)
EXTENDS Integers, Sequences, FiniteSets, TLC

VARIABLES
    \* ---- ScreenerClient ----
    items,          \* the data prop (list of records)
    search, sector, region, assetType, trendFilter,
    rsiMin, rsiMax, adxMin, volMin, riskMax, volRatioMin,
    sortField, sortDir,
    \* ---- SectorsClient ----
    secItems,       \* the data prop
    heatMetric, selectedSector,
    sectorStats,    \* the memoised list of SectorStats objects
    \* ---- PortfolioClient ----
    assets,         \* the screenerData prop
    portfolio,      \* list of holdings [ticker, shares]
    capital,
    searchQuery, isSearchOpen,
    storage,        \* localStorage["botbourse_portfolio"], parsed
    pc,             \* which effect runs next: "load", "save", "rerender", "ready";
                    \* "strict-load", "strict-save" for the first of the two
                    \* passes of the mount effects under StrictMode
    pending,        \* state updates queued by the load effect
    atMount,        \* what local storage held when the page mounted
    \* ---- watchlist server actions ----
    rows,           \* the watchlistItem table, in order of creation
    calls,          \* the toggleWatchlist calls in flight
    session,        \* the user the server's auth() resolves for the page
    \* ---- AssetDetailClient ----
    pageTicker,     \* the ticker prop
    predictions,    \* the predictions prop
    volumeRatio,    \* features.volume_ratio
    isSignedIn, isWatching, isPending,
    newWatchingState,   \* the constant captured by the click handler
    beforeClick     \* isWatching as it was when the button was clicked

scrVars  == <<items, search, sector, region, assetType, trendFilter,
              rsiMin, rsiMax, adxMin, volMin, riskMax, volRatioMin,
              sortField, sortDir>>
secVars  == <<secItems, heatMetric, selectedSector, sectorStats>>
portVars == <<assets, portfolio, capital, searchQuery, isSearchOpen, storage,
              pc, pending, atMount>>
wlVars   == <<rows, calls, session>>
pageVars == <<pageTicker, predictions, volumeRatio, isSignedIn, isWatching,
              isPending, newWatchingState, beforeClick>>
vars     == <<scrVars, secVars, portVars, wlVars, pageVars>>

Null  == <<>>
Empty == <<>>
Some(v) == <<v>>

\* What a number field of a record may hold besides null and a number: NaN
\* and undefined (the property is absent).
NotANumber == <<0, 0>>
Undefined  == <<0, 0, 0>>
IsNumber(v) == Len(v) = 1

-----------------------------------------------------------------------------
(* Strings *)

Lower(c) ==
    CASE c = "A" -> "a"
      [] c = "B" -> "b"
      [] c = "X" -> "x"
      [] OTHER   -> c

toLowerCase(s) == [i \in 1..Len(s) |-> Lower(s[i])]

includes(s, sub) ==
    \E i \in 0..(Len(s) - Len(sub)) : SubSeq(s, i + 1, i + Len(sub)) = sub

-----------------------------------------------------------------------------
(* JavaScript numbers: exact rationals n/d (d > 0) and the IEEE specials *)

Sgn(i) == IF i > 0 THEN 1 ELSE IF i < 0 THEN -1 ELSE 0
Abs(i) == IF i < 0 THEN -i ELSE i

RECURSIVE GCD(_, _)
GCD(a, b) == IF b = 0 THEN a ELSE GCD(b, a % b)

\* n/d in lowest terms
Frac(n, d) ==
    LET g == GCD(Abs(n), d)
    IN  [k |-> "fin", n |-> n \div g, d |-> d \div g]
Num(n)     == Frac(n, 1)
NaN        == [k |-> "nan", n |-> 0, d |-> 1]
PosInf     == [k |-> "inf", n |-> 1, d |-> 1]
NegInf     == [k |-> "inf", n |-> -1, d |-> 1]

IsNaN(x)    == x.k = "nan"
IsFinite(x) == x.k = "fin"

\* x + y
JsAdd(x, y) ==
    IF IsNaN(x) \/ IsNaN(y) THEN NaN
    ELSE IF x.k = "inf" /\ y.k = "inf" THEN (IF x.n = y.n THEN x ELSE NaN)
    ELSE IF x.k = "inf" THEN x
    ELSE IF y.k = "inf" THEN y
    ELSE Frac(x.n * y.d + y.n * x.d, x.d * y.d)

JsNeg(x) == IF IsNaN(x) THEN NaN ELSE [x EXCEPT !.n = -x.n]

\* x - y
JsSub(x, y) == JsAdd(x, JsNeg(y))

\* x * y
JsMul(x, y) ==
    IF IsNaN(x) \/ IsNaN(y) THEN NaN
    ELSE IF x.k = "inf" \/ y.k = "inf"
         THEN IF x.n = 0 \/ y.n = 0 THEN NaN
              ELSE [k |-> "inf", n |-> Sgn(x.n) * Sgn(y.n), d |-> 1]
    ELSE Frac(x.n * y.n, x.d * y.d)

\* x / y
JsDiv(x, y) ==
    IF IsNaN(x) \/ IsNaN(y) THEN NaN
    ELSE IF x.k = "inf" /\ y.k = "inf" THEN NaN
    ELSE IF x.k = "inf"
         THEN [k |-> "inf", n |-> IF y.n < 0 THEN -x.n ELSE x.n, d |-> 1]
    ELSE IF y.k = "inf" THEN Num(0)
    ELSE IF y.n = 0
         THEN IF x.n = 0 THEN NaN
              ELSE [k |-> "inf", n |-> Sgn(x.n), d |-> 1]
    ELSE Frac(x.n * y.d * Sgn(y.n), x.d * Abs(y.n))

\* x < y (false when either side is NaN)
JsLt(x, y) ==
    IF IsNaN(x) \/ IsNaN(y) THEN FALSE
    ELSE IF x.k = "inf" /\ y.k = "inf" THEN x.n < y.n
    ELSE IF x.k = "inf" THEN x.n < 0
    ELSE IF y.k = "inf" THEN y.n > 0
    ELSE x.n * y.d < y.n * x.d

JsGt(x, y) == JsLt(y, x)

\* x === y on numbers
JsEq(x, y) ==
    IF IsNaN(x) \/ IsNaN(y) THEN FALSE
    ELSE IF x.k = "inf" \/ y.k = "inf" THEN x.k = y.k /\ x.n = y.n
    ELSE x.n * y.d = y.n * x.d

\* Math.floor(x)
JsFloor(x) == IF IsFinite(x) THEN Num(x.n \div x.d) ELSE x

\* Math.max(x, y) and Math.min(x, y)
JsMax(x, y) == IF IsNaN(x) \/ IsNaN(y) THEN NaN ELSE IF JsLt(x, y) THEN y ELSE x
JsMin(x, y) == IF IsNaN(x) \/ IsNaN(y) THEN NaN ELSE IF JsLt(y, x) THEN y ELSE x

\* Array.prototype.sort with a consistent comparator: stable, and s[i] comes
\* before s[j] when before[i][j] (the comparator is negative on them).
StableSort(s, before) ==
    LET n == Len(s)
        t == SubSeq(s, 1, n)
        rank == SubSeq([i \in 1..n |->
                          Cardinality({j \in 1..n :
                              \/ before[j][i]
                              \/ (~ before[i][j] /\ j < i)}) + 1], 1, n)
    IN  SubSeq([p \in 1..n |-> t[CHOOSE i \in 1..n : rank[i] = p]], 1, n)

RECURSIVE SumSeq(_)
\* reduce((a, b) => a + b, 0) over a list of numbers
SumSeq(s) == IF s = <<>> THEN Num(0) ELSE JsAdd(SumSeq(SubSeq(s, 1, Len(s) - 1)), s[Len(s)])

-----------------------------------------------------------------------------
(* Instrument records *)

BaseItem ==
    [ticker |-> <<"A">>, name |-> <<"a">>, sector |-> "Technology",
     region |-> "US", assetType |-> "stock", price |-> 100,
     changePercent |-> 0, rsi |-> Null, adx |-> Null,
     volatility20d |-> Null, volumeRatio |-> Null,
     return20d |-> Null, return60d |-> Null, riskScore |-> 3,
     shortTrend |-> "neutral", shortReturn |-> 0,
     mediumTrend |-> "neutral", mediumReturn |-> 0]

\* The records served to the screener.  Between them they carry, for each
\* range-filtered field, a null, a real 0, values on the preset bounds and
\* values next to them; tickers and names differ in case.
Catalogue ==
    << [BaseItem EXCEPT !.ticker = <<"A","B">>, !.name = <<"a","b","x">>,
          !.rsi = Some(30), !.adx = Some(40), !.volatility20d = Some(350),
          !.volumeRatio = Some(20), !.riskScore = 2,
          !.shortTrend = "bullish", !.price = 50, !.mediumReturn = 40],
       [BaseItem EXCEPT !.ticker = <<"b","a">>, !.name = <<"X","a">>,
          !.sector = "Energy", !.region = "Europe", !.assetType = "etf",
          !.riskScore = 3, !.shortTrend = "bearish", !.price = 0],
       [BaseItem EXCEPT !.ticker = <<"X","A">>, !.name = <<"b","b">>,
          !.sector = "Energy", !.rsi = Some(0), !.adx = Some(0),
          !.volatility20d = Some(0), !.volumeRatio = Some(0),
          !.riskScore = 1, !.price = 50, !.mediumReturn = 40],
       [BaseItem EXCEPT !.ticker = <<"b","X">>, !.name = <<"A","a">>,
          !.region = "Europe", !.rsi = Some(70), !.adx = Some(39),
          !.volatility20d = Some(349), !.volumeRatio = Some(19),
          !.riskScore = 5, !.shortTrend = "bullish", !.price = 20,
          !.mediumReturn = -10],
       [BaseItem EXCEPT !.ticker = <<"x","b">>, !.name = <<"B","X">>,
          !.assetType = "etf", !.rsi = Some(31), !.adx = Null,
          !.volatility20d = Some(1), !.volumeRatio = Some(21),
          !.riskScore = 2, !.shortTrend = "bearish", !.price = 70,
          !.mediumReturn = 0],
       [BaseItem EXCEPT !.ticker = <<"a","x">>, !.name = <<"x","x">>,
          !.sector = "Energy", !.rsi = Null, !.adx = Some(41),
          !.volatility20d = Null, !.volumeRatio = Some(0),
          !.riskScore = 3, !.price = 70, !.mediumReturn = 40] >>

ItemLists == {<<>>, Catalogue}

\* Records as they arrive when a technical could not be computed upstream:
\* the first holds no rsi and no volumeRatio property (undefined) and NaN for
\* adx and volatility20d; the others hold real zeros and nulls.
LooseCatalogue ==
    << [BaseItem EXCEPT !.ticker = <<"A","B">>, !.name = <<"a","b","x">>,
          !.rsi = Undefined, !.adx = NotANumber,
          !.volatility20d = NotANumber, !.volumeRatio = Undefined,
          !.riskScore = 2, !.shortTrend = "bullish", !.mediumReturn = 40],
       Catalogue[3],
       Catalogue[2] >>

\* Values the filter controls are driven with.
SearchTexts   == {<<>>, <<"a","B">>, <<"X">>}
SectorChoices == {"all", "Energy"}
RegionChoices == {"all", "Europe"}
TypeChoices   == {"all", "etf"}
TrendChoices  == {"all", "bullish", "bearish"}
RsiMinInputs      == {Empty, Some(0), Some(70)}
RsiMaxInputs      == {Empty, Some(30)}
AdxMinInputs      == {Empty, Some(0), Some(40)}
VolMinInputs      == {Empty, Some(0), Some(35)}
RiskMaxInputs     == {Empty, Some(2)}
VolRatioMinInputs == {Empty, Some(0), Some(2)}
SortFields == {"ticker", "mediumReturn", "rsi"}

-----------------------------------------------------------------------------
(* ScreenerClient *)

\* FilterPass with the rsiMax bound made exclusive.
FilterPassExclusiveMax(item) ==
    /\ ~ ( /\ search # <<>>
           /\ ~ includes(toLowerCase(item.ticker), toLowerCase(search))
           /\ ~ includes(toLowerCase(item.name), toLowerCase(search)) )
    /\ ~ (sector # "all" /\ item.sector # sector)
    /\ ~ (region # "all" /\ item.region # region)
    /\ ~ (assetType # "all" /\ item.assetType # assetType)
    /\ ~ (trendFilter # "all" /\ item.shortTrend # trendFilter)
    /\ ~ (rsiMin # Empty /\ (item.rsi = Null \/ (IsNumber(item.rsi) /\ item.rsi[1] < rsiMin[1])))
    /\ ~ (rsiMax # Empty /\ (item.rsi = Null \/ (IsNumber(item.rsi) /\ item.rsi[1] >= rsiMax[1])))
    /\ ~ (adxMin # Empty /\ (item.adx = Null \/ (IsNumber(item.adx) /\ item.adx[1] < adxMin[1])))
    /\ ~ (volMin # Empty /\ (item.volatility20d = Null
                              \/ (IsNumber(item.volatility20d) /\ item.volatility20d[1] * 100 < volMin[1] * 1000)))
    /\ ~ (riskMax # Empty /\ item.riskScore > riskMax[1])
    /\ ~ (volRatioMin # Empty /\ (item.volumeRatio = Null
                                   \/ (IsNumber(item.volumeRatio) /\ item.volumeRatio[1] < volRatioMin[1] * 10)))

\* v ?? 0
NullAsZero(v) == IF v = Null THEN 0 ELSE v[1]

\* FilterPass with a null value read as 0 by the range predicates.
FilterPassNullAsZero(item) ==
    /\ ~ ( /\ search # <<>>
           /\ ~ includes(toLowerCase(item.ticker), toLowerCase(search))
           /\ ~ includes(toLowerCase(item.name), toLowerCase(search)) )
    /\ ~ (sector # "all" /\ item.sector # sector)
    /\ ~ (region # "all" /\ item.region # region)
    /\ ~ (assetType # "all" /\ item.assetType # assetType)
    /\ ~ (trendFilter # "all" /\ item.shortTrend # trendFilter)
    /\ ~ (rsiMin # Empty /\ NullAsZero(item.rsi) < rsiMin[1])
    /\ ~ (rsiMax # Empty /\ NullAsZero(item.rsi) > rsiMax[1])
    /\ ~ (adxMin # Empty /\ NullAsZero(item.adx) < adxMin[1])
    /\ ~ (volMin # Empty /\ NullAsZero(item.volatility20d) * 100 < volMin[1] * 1000)
    /\ ~ (riskMax # Empty /\ item.riskScore > riskMax[1])
    /\ ~ (volRatioMin # Empty /\ NullAsZero(item.volumeRatio) < volRatioMin[1] * 10)

\* The predicate handed to items.filter: each line is one early return.
FilterPass(item) ==
    /\ ~ ( /\ search # <<>>
           /\ ~ includes(toLowerCase(item.ticker), toLowerCase(search))
           /\ ~ includes(toLowerCase(item.name), toLowerCase(search)) )
    /\ ~ (sector # "all" /\ item.sector # sector)
    /\ ~ (region # "all" /\ item.region # region)
    /\ ~ (assetType # "all" /\ item.assetType # assetType)
    /\ ~ (trendFilter # "all" /\ item.shortTrend # trendFilter)
    /\ ~ (rsiMin # Empty /\ (item.rsi = Null \/ (IsNumber(item.rsi) /\ item.rsi[1] < rsiMin[1])))
    /\ ~ (rsiMax # Empty /\ (item.rsi = Null \/ (IsNumber(item.rsi) /\ item.rsi[1] > rsiMax[1])))
    /\ ~ (adxMin # Empty /\ (item.adx = Null \/ (IsNumber(item.adx) /\ item.adx[1] < adxMin[1])))
    /\ ~ (volMin # Empty /\ (item.volatility20d = Null
                              \/ (IsNumber(item.volatility20d) /\ item.volatility20d[1] * 100 < volMin[1] * 1000)))
    /\ ~ (riskMax # Empty /\ item.riskScore > riskMax[1])
    /\ ~ (volRatioMin # Empty /\ (item.volumeRatio = Null
                                   \/ (IsNumber(item.volumeRatio) /\ item.volumeRatio[1] < volRatioMin[1] * 10)))

filtered == SelectSeq(items, FilterPass)

Presets ==
    { [rsiMax |-> 30], [rsiMin |-> 70], [volMin |-> 35], [riskMax |-> 2],
      [adxMin |-> 40], [trendFilter |-> "bullish"], [trendFilter |-> "bearish"],
      [volRatioMin |-> 2] }

Has(f, k) == k \in DOMAIN f

SetSearch(v) ==
    /\ search' = v
    /\ UNCHANGED <<secVars, portVars, wlVars, pageVars, items, sector, region, assetType, trendFilter, rsiMin, rsiMax,
                   adxMin, volMin, riskMax, volRatioMin, sortField, sortDir>>

SetSector(v) ==
    /\ sector' = v
    /\ UNCHANGED <<secVars, portVars, wlVars, pageVars, items, search, region, assetType, trendFilter, rsiMin, rsiMax,
                   adxMin, volMin, riskMax, volRatioMin, sortField, sortDir>>

SetRegion(v) ==
    /\ region' = v
    /\ UNCHANGED <<secVars, portVars, wlVars, pageVars, items, search, sector, assetType, trendFilter, rsiMin, rsiMax,
                   adxMin, volMin, riskMax, volRatioMin, sortField, sortDir>>

SetAssetType(v) ==
    /\ assetType' = v
    /\ UNCHANGED <<secVars, portVars, wlVars, pageVars, items, search, sector, region, trendFilter, rsiMin, rsiMax,
                   adxMin, volMin, riskMax, volRatioMin, sortField, sortDir>>

SetTrendFilter(v) ==
    /\ trendFilter' = v
    /\ UNCHANGED <<secVars, portVars, wlVars, pageVars, items, search, sector, region, assetType, rsiMin, rsiMax,
                   adxMin, volMin, riskMax, volRatioMin, sortField, sortDir>>

SetRsiMin(v) ==
    /\ rsiMin' = v
    /\ UNCHANGED <<secVars, portVars, wlVars, pageVars, items, search, sector, region, assetType, trendFilter, rsiMax,
                   adxMin, volMin, riskMax, volRatioMin, sortField, sortDir>>

SetRsiMax(v) ==
    /\ rsiMax' = v
    /\ UNCHANGED <<secVars, portVars, wlVars, pageVars, items, search, sector, region, assetType, trendFilter, rsiMin,
                   adxMin, volMin, riskMax, volRatioMin, sortField, sortDir>>

SetAdxMin(v) ==
    /\ adxMin' = v
    /\ UNCHANGED <<secVars, portVars, wlVars, pageVars, items, search, sector, region, assetType, trendFilter, rsiMin,
                   rsiMax, volMin, riskMax, volRatioMin, sortField, sortDir>>

SetVolMin(v) ==
    /\ volMin' = v
    /\ UNCHANGED <<secVars, portVars, wlVars, pageVars, items, search, sector, region, assetType, trendFilter, rsiMin,
                   rsiMax, adxMin, riskMax, volRatioMin, sortField, sortDir>>

SetRiskMax(v) ==
    /\ riskMax' = v
    /\ UNCHANGED <<secVars, portVars, wlVars, pageVars, items, search, sector, region, assetType, trendFilter, rsiMin,
                   rsiMax, adxMin, volMin, volRatioMin, sortField, sortDir>>

SetVolRatioMin(v) ==
    /\ volRatioMin' = v
    /\ UNCHANGED <<secVars, portVars, wlVars, pageVars, items, search, sector, region, assetType, trendFilter, rsiMin,
                   rsiMax, adxMin, volMin, riskMax, sortField, sortDir>>

resetFilters ==
    /\ sector' = "all" /\ region' = "all" /\ assetType' = "all"
    /\ trendFilter' = "all" /\ rsiMin' = Empty /\ rsiMax' = Empty
    /\ adxMin' = Empty /\ volMin' = Empty /\ riskMax' = Empty
    /\ volRatioMin' = Empty /\ search' = <<>>
    /\ UNCHANGED <<secVars, portVars, wlVars, pageVars, items, sortField, sortDir>>

\* resetFilters, then one setter per truthy field of the preset.
applyPreset(f) ==
    /\ sector' = "all" /\ region' = "all" /\ assetType' = "all"
    /\ search' = <<>>
    /\ rsiMin' = IF Has(f, "rsiMin") /\ f.rsiMin # 0 THEN Some(f.rsiMin) ELSE Empty
    /\ rsiMax' = IF Has(f, "rsiMax") /\ f.rsiMax # 0 THEN Some(f.rsiMax) ELSE Empty
    /\ adxMin' = IF Has(f, "adxMin") /\ f.adxMin # 0 THEN Some(f.adxMin) ELSE Empty
    /\ volMin' = IF Has(f, "volMin") /\ f.volMin # 0 THEN Some(f.volMin) ELSE Empty
    /\ riskMax' = IF Has(f, "riskMax") /\ f.riskMax # 0 THEN Some(f.riskMax) ELSE Empty
    /\ volRatioMin' = IF Has(f, "volRatioMin") /\ f.volRatioMin # 0
                      THEN Some(f.volRatioMin) ELSE Empty
    /\ trendFilter' = IF Has(f, "trendFilter") /\ f.trendFilter # ""
                      THEN f.trendFilter ELSE "all"
    /\ UNCHANGED <<secVars, portVars, wlVars, pageVars, items, sortField, sortDir>>

\* toggleSort followed by a sort of the record list itself, not of a copy
\* (by the default field, descending).
toggleSortInPlace(field) ==
    /\ IF sortField = field
       THEN /\ sortDir' = (IF sortDir = "asc" THEN "desc" ELSE "asc")
            /\ UNCHANGED sortField
       ELSE /\ sortField' = field
            /\ sortDir' = "desc"
    /\ items' = StableSort(items, [i \in 1..Len(items) |-> [j \in 1..Len(items) |->
                                      items[j].mediumReturn < items[i].mediumReturn]])
    /\ UNCHANGED <<secVars, portVars, wlVars, pageVars, search, sector, region, assetType, trendFilter, rsiMin,
                   rsiMax, adxMin, volMin, riskMax, volRatioMin>>

toggleSort(field) ==
    /\ IF sortField = field
       THEN /\ sortDir' = (IF sortDir = "asc" THEN "desc" ELSE "asc")
            /\ UNCHANGED sortField
       ELSE /\ sortField' = field
            /\ sortDir' = "desc"
    /\ UNCHANGED <<secVars, portVars, wlVars, pageVars, items, search, sector, region, assetType, trendFilter, rsiMin,
                   rsiMax, adxMin, volMin, riskMax, volRatioMin>>

InitScreenerState ==
    /\ search = <<>> /\ sector = "all" /\ region = "all" /\ assetType = "all"
    /\ trendFilter = "all" /\ rsiMin = Empty /\ rsiMax = Empty
    /\ adxMin = Empty /\ volMin = Empty /\ riskMax = Empty
    /\ volRatioMin = Empty
    /\ sortField = "mediumReturn" /\ sortDir = "desc"

NextScreener ==
    \/ \E v \in SearchTexts : SetSearch(v)
    \/ \E v \in SectorChoices : SetSector(v)
    \/ \E v \in RegionChoices : SetRegion(v)
    \/ \E v \in TypeChoices : SetAssetType(v)
    \/ \E v \in TrendChoices : SetTrendFilter(v)
    \/ \E v \in RsiMinInputs : SetRsiMin(v)
    \/ \E v \in RsiMaxInputs : SetRsiMax(v)
    \/ \E v \in AdxMinInputs : SetAdxMin(v)
    \/ \E v \in VolMinInputs : SetVolMin(v)
    \/ \E v \in RiskMaxInputs : SetRiskMax(v)
    \/ \E v \in VolRatioMinInputs : SetVolRatioMin(v)
    \/ resetFilters
    \/ \E f \in Presets : applyPreset(f)
    \/ \E field \in SortFields : toggleSort(field)

\* ---- sorting ----

\* The fields of a record that may hold null.
NullableFields ==
    {"rsi", "adx", "volatility20d", "volumeRatio", "return20d", "return60d"}

\* record[sortField] ?? 0
SortValue(item, field) ==
    IF field \in NullableFields
    THEN (IF item[field] = Null \/ item[field] = Undefined THEN 0 ELSE item[field][1])
    ELSE item[field]

\* The sign of the first difference of two integer sequences, a proper
\* prefix coming first.
SeqCompare(u, v) ==
    LET n == IF Len(u) < Len(v) THEN Len(u) ELSE Len(v)
        d == {i \in 1..n : u[i] # v[i]}
    IN  IF d = {} THEN Sgn(Len(u) - Len(v))
        ELSE LET i == CHOOSE i \in d : \A j \in d : i <= j
             IN  Sgn(u[i] - v[i])

\* The collation weights of a letter: its place in the alphabet, and its case.
LetterRank(c) ==
    CASE Lower(c) = "a" -> 1
      [] Lower(c) = "b" -> 2
      [] Lower(c) = "x" -> 3
CaseRank(c) == IF c = Lower(c) THEN 0 ELSE 1

\* String.prototype.localeCompare on strings of letters: the letters decide
\* whatever their case; between strings with the same letters the first
\* difference of case decides, lower case first.
localeCompare(s, t) ==
    LET primary == SeqCompare([i \in 1..Len(s) |-> LetterRank(s[i])],
                              [i \in 1..Len(t) |-> LetterRank(t[i])])
    IN  IF primary # 0 THEN primary
        ELSE SeqCompare([i \in 1..Len(s) |-> CaseRank(s[i])],
                        [i \in 1..Len(t) |-> CaseRank(t[i])])

\* The comparator without the ?? 0: null ordered below every number.
CompareNullLowest(a, b) ==
    LET low(x) == IF sortField \in NullableFields /\ x[sortField] = Null
                  THEN -1000000 ELSE SortValue(x, sortField)
    IN  IF sortField = "ticker"
        THEN (IF sortDir = "asc" THEN localeCompare(a.ticker, b.ticker)
              ELSE localeCompare(b.ticker, a.ticker))
        ELSE (IF sortDir = "asc" THEN Sgn(low(a) - low(b))
              ELSE Sgn(low(b) - low(a)))

\* The comparator handed to copy.sort: the sign of its result.
Compare(a, b) ==
    LET va == SortValue(a, sortField)
        vb == SortValue(b, sortField)
    IN  IF sortField = "ticker"
        THEN (IF sortDir = "asc" THEN localeCompare(va, vb)
              ELSE localeCompare(vb, va))
        ELSE (IF sortDir = "asc" THEN Sgn(va - vb) ELSE Sgn(vb - va))

\* The sorted memo: a sorted copy of filtered.
sorted ==
    LET copy == filtered
    IN  StableSort(copy, [i \in 1..Len(copy) |-> [j \in 1..Len(copy) |->
                             Compare(copy[i], copy[j]) < 0]])

-----------------------------------------------------------------------------
(* SectorsClient *)

MaxSecItems == 2

\* a.return20d ?? 0
OrZero(v) == IF v = Null THEN 0 ELSE v[1]

\* Returns are in units of 1/1000: 0.005 is 5, 0.03 is 30.
SecReturn20d == {Null, Some(4), Some(5), Some(10), Some(15), Some(16)}
SecReturn60d == {Null, Some(30)}
SecSectors   == {"Technology", ""}
SecTickers   == << <<"A">>, <<"B">>, <<"X">>, <<"Y">>, <<"Z">> >>

\* The other fields of a record follow from its place and its two returns,
\* so that every average and both sentiment shares vary with them.
SecRecords(i) ==
    { [BaseItem EXCEPT !.ticker = SecTickers[i], !.sector = sec,
                       !.return20d = r20, !.return60d = r60,
                       !.changePercent = 3 * i - 4,
                       !.rsi = IF r20 = Null THEN Some(70)
                               ELSE IF r20 = Some(5) THEN Undefined
                               ELSE IF r20 = Some(4) THEN Null
                               ELSE Some(40 + 2 * r20[1]),
                       !.volatility20d = IF r20 = Null THEN Some(250)
                                         ELSE IF r20[1] > 10 THEN NotANumber
                                         ELSE Some(10 * r20[1]),
                       !.riskScore = (OrZero(r20) % 5) + 1,
                       !.shortReturn = OrZero(r20) - 10,
                       !.mediumReturn = IF sec = "" THEN 20 ELSE -5 * i,
                       !.shortTrend = IF r20 = Null THEN "neutral"
                                      ELSE IF r20[1] >= 10 THEN "bullish"
                                      ELSE "bearish",
                       !.mediumTrend = IF r60 = Null THEN "bearish" ELSE "bullish"] :
        sec \in SecSectors, r20 \in SecReturn20d, r60 \in SecReturn60d }

\* Longer lists of one sector, for the slices of three: their records differ
\* in the 20-day return alone.
LongSecLen == 4
LongReturn20d == {Null, Some(4), Some(10)}
LongSecLists ==
    { [i \in 1..LongSecLen |->
          CHOOSE r \in SecRecords(i) :
              r.sector = "Technology" /\ r.return60d = Null /\ r.return20d = f[i]] :
      f \in [1..LongSecLen -> LongReturn20d] }

RECURSIVE SecListsOf(_)
\* The lists of n records, the record at place i drawn from SecRecords(i).
SecListsOf(n) ==
    IF n = 0 THEN {<<>>}
    ELSE {Append(l, r) : l \in SecListsOf(n - 1), r \in SecRecords(n)}

SecItemLists ==
    UNION {SecListsOf(n) : n \in 0..MaxSecItems} \cup LongSecLists

\* avg dividing by the number of values, the null ones included.
AvgOverAll(vals) ==
    LET valid == SelectSeq(vals, LAMBDA v : v # Null /\ v # Undefined /\ IsNumber(v))
        nums  == [i \in 1..Len(valid) |-> Num(valid[i][1])]
    IN  IF Len(valid) > 0 THEN JsDiv(SumSeq(nums), Num(Len(vals))) ELSE Num(0)

\* avg(vals): the mean of the non-null, finite values, 0 when there is none
avg(vals) ==
    LET valid == SelectSeq(vals, LAMBDA v : v # Null /\ v # Undefined /\ IsNumber(v))
        nums  == [i \in 1..Len(valid) |-> Num(valid[i][1])]
    IN  IF Len(valid) > 0 THEN JsDiv(SumSeq(nums), Num(Len(valid))) ELSE Num(0)

Field(list, f) == [i \in 1..Len(list) |-> list[i][f]]
SomeField(list, f) == [i \in 1..Len(list) |-> Some(list[i][f])]

\* The comparator with its operands exchanged: ascending 20-day return.
By20dAsc(a, b) == OrZero(a.return20d) - OrZero(b.return20d) < 0

\* (a, b) => (b.return20d ?? 0) - (a.return20d ?? 0) is negative
By20dDesc(a, b) == OrZero(b.return20d) - OrZero(a.return20d) < 0
Order20d(list) ==
    [i \in 1..Len(list) |-> [j \in 1..Len(list) |-> By20dDesc(list[i], list[j])]]

\* Momentum classified on the sign of the difference alone, without the band.
MomentumNoBand(avgReturn20d, avgReturn60d) ==
    LET monthlyFromQuarterly == JsDiv(avgReturn60d, Num(3))
    IN  IF JsGt(avgReturn20d, monthlyFromQuarterly)
        THEN "accelerating"
        ELSE IF JsLt(avgReturn20d, monthlyFromQuarterly)
        THEN "decelerating"
        ELSE "stable"

\* The momentum label from the two sector averages.
Momentum(avgReturn20d, avgReturn60d) ==
    LET monthlyFromQuarterly == JsDiv(avgReturn60d, Num(3))
    IN  IF JsGt(avgReturn20d, JsAdd(monthlyFromQuarterly, Num(5)))
        THEN "accelerating"
        ELSE IF JsLt(avgReturn20d, JsSub(monthlyFromQuarterly, Num(5)))
        THEN "decelerating"
        ELSE "stable"

\* The grouping key without the fallback for an empty sector.
GroupKeyRaw(item) == item.sector

\* item.sector || "Diversified"
GroupKey(item) == IF item.sector = "" THEN "Diversified" ELSE item.sector

RECURSIVE KeyOrder(_)
\* Object.entries(grouped): the keys in order of first insertion
KeyOrder(list) ==
    IF list = <<>> THEN <<>>
    ELSE LET rest == KeyOrder(SubSeq(list, 1, Len(list) - 1))
             key  == GroupKey(list[Len(list)])
         IN  IF \E i \in 1..Len(rest) : rest[i] = key THEN rest
             ELSE Append(rest, key)

SliceFirst3(l) == SubSeq(l, 1, IF Len(l) < 3 THEN Len(l) ELSE 3)
SliceLast3(l)  == SubSeq(l, IF Len(l) < 3 THEN 1 ELSE Len(l) - 2, Len(l))
Reverse(l)     == [i \in 1..Len(l) |-> l[Len(l) + 1 - i]]

\* Bullish read off the medium-horizon trend instead.
IsBullishMedium(a) == a.mediumTrend = "bullish"

\* a => a.shortTrend === "bullish"
IsBullish(a) == a.shortTrend = "bullish"

\* One SectorStats object, from the sector name and its members.
StatsOf(name, members) ==
    LET sorted20d == StableSort(members, Order20d(members))
        avgReturn20d == avg(Field(members, "return20d"))
        avgReturn60d == avg(Field(members, "return60d"))
        bullish == Len(SelectSeq(members, IsBullish))
        bearish == Len(SelectSeq(members, LAMBDA a : a.shortTrend = "bearish"))
    IN  [name |-> name,
         count |-> Len(members),
         avgChange |-> avg(SomeField(members, "changePercent")),
         avgReturn20d |-> avgReturn20d,
         avgReturn60d |-> avgReturn60d,
         avgRsi |-> avg(Field(members, "rsi")),
         avgVolatility |-> avg(Field(members, "volatility20d")),
         avgRisk |-> avg(SomeField(members, "riskScore")),
         avgShortReturn |-> avg(SomeField(members, "shortReturn")),
         avgMediumReturn |-> avg(SomeField(members, "mediumReturn")),
         bullishPct |-> IF Len(members) > 0 THEN JsDiv(Num(bullish), Num(Len(members))) ELSE Num(0),
         bearishPct |-> IF Len(members) > 0 THEN JsDiv(Num(bearish), Num(Len(members))) ELSE Num(0),
         topPerformers |-> SliceFirst3(sorted20d),
         worstPerformers |-> Reverse(SliceLast3(sorted20d)),
         momentum |-> Momentum(avgReturn20d, avgReturn60d),
         assets |-> members]

\* The useMemo body: group, summarise, sort by the heat metric (descending).
ComputeSectorStats(list, metric) ==
    LET keys  == KeyOrder(list)
        stats == SubSeq([i \in 1..Len(keys) |->
                           StatsOf(keys[i],
                                   SelectSeq(list, LAMBDA it : GroupKey(it) = keys[i]))],
                        1, Len(keys))
    IN  StableSort(stats, [i \in 1..Len(keys) |-> [j \in 1..Len(keys) |->
                   JsLt(JsSub(stats[j][metric], stats[i][metric]), Num(0))]])

\* A render with a sector selected sorts that summary's member list in place.
Render(stats, sel) ==
    [i \in 1..Len(stats) |->
        IF sel # Null /\ stats[i].name = sel[1]
        THEN [stats[i] EXCEPT !.assets = StableSort(stats[i].assets, Order20d(stats[i].assets))]
        ELSE stats[i]]

HeatMetrics == {"avgChange", "avgReturn20d", "avgMediumReturn"}

setHeatMetric(m) ==
    /\ m # heatMetric
    /\ heatMetric' = m
    /\ sectorStats' = Render(ComputeSectorStats(secItems, m), selectedSector)
    /\ UNCHANGED <<scrVars, portVars, wlVars, pageVars, secItems, selectedSector>>

\* The tile's onClick: setSelectedSector(isSelected ? null : sector.name)
ClickSectorTile(i) ==
    /\ i \in 1..Len(sectorStats)
    /\ selectedSector' = IF selectedSector = Some(sectorStats[i].name)
                         THEN Null ELSE Some(sectorStats[i].name)
    /\ sectorStats' = Render(sectorStats, selectedSector')
    /\ UNCHANGED <<scrVars, portVars, wlVars, pageVars, secItems, heatMetric>>

\* The momentum list's onClick: setSelectedSector(sector.name)
ClickMomentumRow(i) ==
    /\ i \in 1..Len(sectorStats)
    /\ sectorStats[i].momentum # "stable"
    /\ selectedSector # Some(sectorStats[i].name)
    /\ selectedSector' = Some(sectorStats[i].name)
    /\ sectorStats' = Render(sectorStats, selectedSector')
    /\ UNCHANGED <<scrVars, portVars, wlVars, pageVars, secItems, heatMetric>>

InitSectorsState(list) ==
    /\ secItems = list
    /\ heatMetric = "avgReturn20d"
    /\ selectedSector = Null
    /\ sectorStats = ComputeSectorStats(list, "avgReturn20d")

NextSectors ==
    \/ \E m \in HeatMetrics : setHeatMetric(m)
    \/ \E i \in 1..MaxSecItems : ClickSectorTile(i)
    \/ \E i \in 1..MaxSecItems : ClickMomentumRow(i)

-----------------------------------------------------------------------------
(* PortfolioClient *)

\* JSON null where a number is expected; it converts to 0 in arithmetic.
JNull == [k |-> "null", n |-> 0, d |-> 1]
ToNumber(x) == IF x.k = "null" THEN Num(0) ELSE x

\* JSON.stringify of a number: a non-finite number is written as null
JsonNum(x) == IF x.k = "fin" THEN x ELSE JNull

\* if (x): a number is truthy unless it is 0 or NaN; null is falsy
Truthy(x) == x.k = "inf" \/ (x.k = "fin" /\ x.n # 0)

DefaultCapital == 100000
MinCapital     == 100

PortItem(t, nm, sec, reg, ty, pr, risk, sr, mr) ==
    [BaseItem EXCEPT !.ticker = t, !.name = nm, !.sector = sec, !.region = reg,
                     !.assetType = ty, !.price = pr, !.riskScore = risk,
                     !.shortReturn = sr, !.mediumReturn = mr]

\* Instruments of the interactive runs: an ordinary one, one dearer than the
\* whole default capital, and one whose price is unknown (0).
SmallAssets ==
    << PortItem(<<"A","B">>, <<"a","b">>, "Technology", "US", "stock", 5000, 2, 10, 50),
       PortItem(<<"B","X">>, <<"b","a">>, "Energy", "Europe", "etf", 150000, 5, -20, 30),
       PortItem(<<"X","A">>, <<"x","b">>, "Finance", "US", "stock", 0, 3, 0, 0) >>

\* Instruments of the runs that start from a stored portfolio: six sectors,
\* two regions, one ETF, two instruments sharing a sector, two price levels.
WideAssets ==
    << PortItem(<<"A">>, <<"a">>, "Technology", "US", "stock", 20000, 1, 10, 50),
       PortItem(<<"B">>, <<"b">>, "Energy", "US", "stock", 20000, 2, -20, 30),
       PortItem(<<"X">>, <<"x">>, "Finance", "Europe", "stock", 20000, 3, 0, 0),
       PortItem(<<"A","A">>, <<"a","a">>, "Healthcare", "US", "stock", 10000, 4, 5, 100),
       PortItem(<<"B","B">>, <<"b","b">>, "Utilities", "US", "stock", 10000, 5, 30, -40),
       PortItem(<<"X","X">>, <<"x","x">>, "Diversified", "US", "etf", 20000, 2, 10, 60),
       PortItem(<<"A","X">>, <<"a","x">>, "Technology", "US", "stock", 10000, 5, 40, 200) >>

Tickers(list) == {list[i].ticker : i \in 1..Len(list)}
Held(ticker)  == \E i \in 1..Len(portfolio) : portfolio[i].ticker = ticker

\* assets.find(a => a.ticker === ticker)
AssetOf(ticker) ==
    LET i == CHOOSE i \in 1..Len(assets) :
                 /\ assets[i].ticker = ticker
                 /\ \A j \in 1..(i - 1) : assets[j].ticker # ticker
    IN  assets[i]

\* item.asset.price * item.shares
ValueOf(h) == JsMul(Num(AssetOf(h.ticker).price), ToNumber(h.shares))

\* portfolio.reduce((sum, item) => sum + item.asset.price * item.shares, 0)
totalValue == SumSeq([i \in 1..Len(portfolio) |-> ValueOf(portfolio[i])])

\* Math.max(0, capital - totalValue)
cashValue == JsMax(Num(0), JsSub(capital, totalValue))

\* capital > 0 ? (item.asset.price * item.shares) / capital : 0
WeightOf(h) == IF JsGt(capital, Num(0)) THEN JsDiv(ValueOf(h), capital) ELSE Num(0)

\* (a, b) => b.weight - a.weight is negative
ByWeightDesc(a, b) == JsLt(JsSub(b.weight, a.weight), Num(0))

\* portfolio.map(...).sort(...).  With a NaN weight the comparator is not
\* consistent and the order is up to the engine; nothing below depends on
\* the order in that case, and the unsorted list stands for it.
portfolioWithWeights ==
    LET mapped == SubSeq([i \in 1..Len(portfolio) |->
                            [ticker |-> portfolio[i].ticker,
                             shares |-> portfolio[i].shares,
                             weight |-> WeightOf(portfolio[i])]],
                         1, Len(portfolio))
    IN  IF \E i \in 1..Len(mapped) : IsNaN(mapped[i].weight)
        THEN mapped
        ELSE StableSort(mapped, [i \in 1..Len(mapped) |-> [j \in 1..Len(mapped) |->
                                    ByWeightDesc(mapped[i], mapped[j])]])

\* A weight table (a Record<string, number>) is the set of its
\* <<key, value>> entries.
EmptyCounts == {}
Keys(counts) == {p[1] : p \in counts}
Get(counts, key) == (CHOOSE p \in counts : p[1] = key)[2]

\* (counts[key] || 0) + relWeight
Bump(counts, key, relWeight) ==
    LET old == IF key \in Keys(counts) /\ Truthy(Get(counts, key))
               THEN Get(counts, key) ELSE Num(0)
    IN  {p \in counts : p[1] # key} \cup {<<key, JsAdd(old, relWeight)>>}

RECURSIVE AccumulateRawWeights(_, _)
\* Accumulate with the weights left relative to capital (not re-normalised).
AccumulateRawWeights(list, totalInvestedWeight) ==
    IF list = <<>>
    THEN [avgRisk |-> Num(0), expected30d |-> Num(0), expected12m |-> Num(0),
          sectorCounts |-> EmptyCounts, regionCounts |-> EmptyCounts,
          typeCounts |-> EmptyCounts]
    ELSE LET acc  == AccumulateRawWeights(SubSeq(list, 1, Len(list) - 1),
                                          totalInvestedWeight)
             item == list[Len(list)]
             a    == AssetOf(item.ticker)
             relWeight == item.weight
         IN  [avgRisk |-> JsAdd(acc.avgRisk, JsMul(Num(a.riskScore), relWeight)),
              expected30d |-> JsAdd(acc.expected30d, JsMul(Num(a.shortReturn), relWeight)),
              expected12m |-> JsAdd(acc.expected12m, JsMul(Num(a.mediumReturn), relWeight)),
              sectorCounts |-> Bump(acc.sectorCounts, a.sector, relWeight),
              regionCounts |-> Bump(acc.regionCounts, a.region, relWeight),
              typeCounts |-> Bump(acc.typeCounts, a.assetType, relWeight)]

RECURSIVE Accumulate(_, _)
\* The for loop over portfolioWithWeights.
Accumulate(list, totalInvestedWeight) ==
    IF list = <<>>
    THEN [avgRisk |-> Num(0), expected30d |-> Num(0), expected12m |-> Num(0),
          sectorCounts |-> EmptyCounts, regionCounts |-> EmptyCounts,
          typeCounts |-> EmptyCounts]
    ELSE LET acc  == Accumulate(SubSeq(list, 1, Len(list) - 1), totalInvestedWeight)
             item == list[Len(list)]
             a    == AssetOf(item.ticker)
             relWeight == JsDiv(item.weight, totalInvestedWeight)
         IN  [avgRisk |-> JsAdd(acc.avgRisk, JsMul(Num(a.riskScore), relWeight)),
              expected30d |-> JsAdd(acc.expected30d, JsMul(Num(a.shortReturn), relWeight)),
              expected12m |-> JsAdd(acc.expected12m, JsMul(Num(a.mediumReturn), relWeight)),
              sectorCounts |-> Bump(acc.sectorCounts, a.sector, relWeight),
              regionCounts |-> Bump(acc.regionCounts, a.region, relWeight),
              typeCounts |-> Bump(acc.typeCounts, a.assetType, relWeight)]

RECURSIVE MaxOver(_, _)
\* Math.max(...values, 0)
MaxOver(counts, keys) ==
    IF keys = {} THEN Num(0)
    ELSE LET k == CHOOSE k \in keys : TRUE
             rest == MaxOver(counts, keys \ {k})
         IN  JsMax(Get(counts, k), rest)

\* The diversification score from the three weight tables.
DivScore(sectorCounts, regionCounts, typeCounts) ==
    LET numSectors == Cardinality(Keys(sectorCounts))
        maxSectorWeight == MaxOver(sectorCounts, Keys(sectorCounts))
        s1 == 5 + (IF numSectors >= 5 THEN 2 ELSE IF numSectors = 1 THEN -2 ELSE 0)
        s2 == s1 - (IF JsGt(maxSectorWeight, Frac(1, 2)) THEN 1 ELSE 0)
        s3 == s2 + (IF JsLt(maxSectorWeight, Frac(1, 4)) THEN 1 ELSE 0)
        s4 == s3 + (IF "etf" \in Keys(typeCounts)
                       /\ Truthy(Get(typeCounts, "etf"))
                       /\ JsGt(Get(typeCounts, "etf"), Frac(1, 10)) THEN 1 ELSE 0)
        s5 == s4 + (IF Cardinality(Keys(regionCounts)) > 1 THEN 1 ELSE 0)
    IN  IF s5 < 1 THEN 1 ELSE IF s5 > 10 THEN 10 ELSE s5

\* The metrics memo: <<>> (null) for an empty portfolio.
metrics ==
    LET pw == portfolioWithWeights
        totalInvestedWeight == SumSeq([i \in 1..Len(pw) |-> pw[i].weight])
        acc == IF JsGt(totalInvestedWeight, Num(0))
               THEN Accumulate(pw, totalInvestedWeight)
               ELSE Accumulate(<<>>, totalInvestedWeight)
    IN  IF Len(pw) = 0 THEN Null
        ELSE Some([investedPct |-> totalInvestedWeight,
                   avgRisk |-> acc.avgRisk,
                   expected30d |-> acc.expected30d,
                   expected12m |-> acc.expected12m,
                   divScore |-> DivScore(acc.sectorCounts, acc.regionCounts,
                                         acc.typeCounts),
                   sectorCounts |-> acc.sectorCounts])

\* The add-asset dropdown.
searchResults ==
    IF searchQuery = <<>> THEN <<>>
    ELSE LET q == toLowerCase(searchQuery)
             notHeld == SelectSeq(assets, LAMBDA a : ~ Held(a.ticker))
             hits == SelectSeq(notHeld, LAMBDA a :
                        \/ includes(toLowerCase(a.ticker), q)
                        \/ includes(toLowerCase(a.name), q))
         IN  SubSeq(hits, 1, IF Len(hits) < 5 THEN Len(hits) ELSE 5)

NoPending == [capital |-> Null, portfolio |-> Null]

\* { capital, items: portfolio.map(p => ({ ticker, shares })) } as JSON
Saved(cap, list) ==
    Some([capital |-> JsonNum(cap),
          items |-> [i \in 1..Len(list) |->
                       [ticker |-> list[i].ticker,
                        shares |-> JsonNum(list[i].shares)]]])

\* State updates queued after earlier ones: the later setCapital and the
\* later setPortfolio are the ones the next render shows.
Queued(earlier, later) ==
    [capital |-> IF later.capital = Null THEN earlier.capital
                 ELSE later.capital,
     portfolio |-> IF later.portfolio = Null THEN earlier.portfolio
                   ELSE later.portfolio]

\* The load effect: reads the stored portfolio and queues the state updates.
LoadEffect ==
    /\ pc \in {"strict-load", "load"}
    /\ pending' =
          IF storage = Null THEN pending
          ELSE LET parsed == storage[1]
                   known == SelectSeq(parsed.items,
                                LAMBDA pi : pi.ticker \in Tickers(assets))
               IN  Queued(pending,
                          [capital |-> IF Truthy(parsed.capital)
                                       THEN Some(parsed.capital) ELSE Null,
                           portfolio |-> Some(known)])
    /\ pc' = IF pc = "strict-load" THEN "strict-save" ELSE "save"
    /\ UNCHANGED <<scrVars, secVars, wlVars, pageVars, assets, atMount, portfolio, capital, searchQuery, isSearchOpen, storage>>

\* The save effect: writes the rendered state to local storage.
SaveEffect ==
    /\ pc \in {"strict-save", "save"}
    /\ storage' = Saved(capital, portfolio)
    /\ pc' = IF pc = "strict-save" THEN "load"
             ELSE IF pending = NoPending THEN "ready" ELSE "rerender"
    /\ UNCHANGED <<scrVars, secVars, wlVars, pageVars, assets, atMount, portfolio, capital, searchQuery, isSearchOpen, pending>>

\* The render that applies the queued updates; the save effect follows when
\* portfolio or capital changed.
Rerender ==
    /\ pc = "rerender"
    /\ capital' = IF pending.capital = Null THEN capital ELSE pending.capital[1]
    /\ portfolio' = IF pending.portfolio = Null THEN portfolio
                    ELSE pending.portfolio[1]
    /\ pending' = NoPending
    /\ pc' = IF pending.portfolio # Null \/ capital' # capital
             THEN "save" ELSE "ready"
    /\ UNCHANGED <<scrVars, secVars, wlVars, pageVars, assets, atMount, searchQuery, isSearchOpen, storage>>

MaxHoldings == 2

OpenSearch ==
    /\ pc = "ready" /\ ~ isSearchOpen
    /\ isSearchOpen' = TRUE
    /\ UNCHANGED <<scrVars, secVars, wlVars, pageVars, assets, atMount, portfolio, capital, searchQuery, storage, pc, pending>>

CloseSearch ==
    /\ pc = "ready" /\ isSearchOpen
    /\ isSearchOpen' = FALSE
    /\ UNCHANGED <<scrVars, secVars, wlVars, pageVars, assets, atMount, portfolio, capital, searchQuery, storage, pc, pending>>

SetSearchQuery(q) ==
    /\ pc = "ready" /\ isSearchOpen
    /\ searchQuery' = q
    /\ UNCHANGED <<scrVars, secVars, wlVars, pageVars, assets, atMount, portfolio, capital, isSearchOpen, storage, pc, pending>>

\* The number of shares addAsset buys.
DefaultShares(asset) ==
    LET targetValue == JsMul(capital, Frac(1, 10))
    IN  JsMax(Num(1), JsFloor(JsDiv(targetValue, Num(asset.price))))

addAsset(asset) ==
    /\ portfolio' = Append(portfolio,
                           [ticker |-> asset.ticker, shares |-> DefaultShares(asset)])
    /\ searchQuery' = <<>>
    /\ isSearchOpen' = FALSE
    /\ pc' = "save"
    /\ UNCHANGED <<scrVars, secVars, wlVars, pageVars, assets, atMount, capital, storage, pending>>

\* A click on a row of the dropdown.
ClickAdd(i) ==
    /\ pc = "ready" /\ isSearchOpen
    /\ Len(portfolio) < MaxHoldings
    /\ i \in 1..Len(searchResults)
    /\ addAsset(searchResults[i])

removeAsset(ticker) ==
    /\ pc = "ready"
    /\ portfolio' = SelectSeq(portfolio, LAMBDA p : p.ticker # ticker)
    /\ pc' = "save"
    /\ UNCHANGED <<scrVars, secVars, wlVars, pageVars, assets, atMount, capital, searchQuery, isSearchOpen, storage, pending>>

\* The state change of updateShares (none when shares < 0).
SetShares(ticker, shares) ==
    IF JsLt(shares, Num(0))
    THEN UNCHANGED <<portfolio, pc>>
    ELSE /\ portfolio' = [i \in 1..Len(portfolio) |->
                             IF portfolio[i].ticker = ticker
                             THEN [portfolio[i] EXCEPT !.shares = shares]
                             ELSE portfolio[i]]
         /\ pc' = "save"

updateShares(ticker, shares) ==
    /\ pc = "ready"
    /\ SetShares(ticker, shares)
    /\ UNCHANGED <<scrVars, secVars, wlVars, pageVars, assets, atMount, capital, searchQuery, isSearchOpen, storage, pending>>

\* The share count updateWeight resolves a target percentage to.
NewShares(ticker, targetWeightPct) ==
    LET targetValue == JsMul(capital, JsDiv(targetWeightPct, Num(100)))
    IN  JsMax(Num(0), JsFloor(JsDiv(targetValue, Num(AssetOf(ticker).price))))

updateWeight(ticker, targetWeightPct) ==
    /\ pc = "ready"
    /\ IF JsLt(targetWeightPct, Num(0)) \/ JsGt(targetWeightPct, Num(100))
       THEN UNCHANGED <<portfolio, pc>>
       ELSE IF Held(ticker)
            THEN SetShares(ticker, NewShares(ticker, targetWeightPct))
            ELSE UNCHANGED <<portfolio, pc>>
    /\ UNCHANGED <<scrVars, secVars, wlVars, pageVars, assets, atMount, capital, searchQuery, isSearchOpen, storage, pending>>

\* The capital input: setCapital(Math.max(100, Number(e.target.value)))
ChangeCapital(v) ==
    /\ pc = "ready"
    /\ capital' = JsMax(Num(MinCapital), v)
    /\ pc' = IF capital' # capital THEN "save" ELSE pc
    /\ UNCHANGED <<scrVars, secVars, wlVars, pageVars, assets, atMount, portfolio, searchQuery, isSearchOpen, storage, pending>>

\* What the user types and what local storage may hold.
QueryInputs   == {<<>>, <<"a">>, <<"X">>}
ShareInputs   == {Num(-1), Num(0), Num(3)}
PercentInputs == {Num(-1), Num(0), Num(50), Num(101)}
CapitalInputs == {Num(-5), Num(0), Num(50000)}

StoredSmall ==
    { Null,
      Some([capital |-> Num(50000),
            items |-> << [ticker |-> <<"A","B">>, shares |-> Num(3)],
                         [ticker |-> <<"Z">>, shares |-> Num(1)] >>]),
      Some([capital |-> Num(-5),
            items |-> << [ticker |-> <<"A","B">>, shares |-> Num(-3)] >>]),
      Some([capital |-> Num(0), items |-> <<>>]),
      Some([capital |-> Num(50000),
            items |-> << [ticker |-> <<"A","B">>, shares |-> Num(3)],
                         [ticker |-> <<"A","B">>, shares |-> Num(1)] >>]) }

\* The page before its mount effects; first is the effect that runs first.
InitMountState(as, st, first) ==
    /\ assets = as
    /\ portfolio = <<>>
    /\ capital = Num(DefaultCapital)
    /\ searchQuery = <<>>
    /\ isSearchOpen = FALSE
    /\ storage = st
    /\ atMount = st
    /\ pc = first
    /\ pending = NoPending

InitPortfolioState(as, st) == InitMountState(as, st, "load")

NextMount ==
    \/ LoadEffect
    \/ SaveEffect
    \/ Rerender

NextPortfolio ==
    \/ LoadEffect
    \/ SaveEffect
    \/ Rerender
    \/ OpenSearch
    \/ CloseSearch
    \/ \E q \in QueryInputs : SetSearchQuery(q)
    \/ \E i \in 1..Len(assets) : ClickAdd(i)
    \/ \E t \in Tickers(assets) : removeAsset(t)
    \/ \E t \in Tickers(assets), n \in ShareInputs : updateShares(t, n)
    \/ \E t \in Tickers(assets), w \in PercentInputs : updateWeight(t, w)
    \/ \E v \in CapitalInputs : ChangeCapital(v)

\* Stored portfolios over WideAssets: every instrument absent or held with
\* 0..MaxStoredShares shares, in catalogue order.
MaxStoredShares == 1

RECURSIVE StoredLists(_)
StoredLists(n) ==
    IF n = 0 THEN {<<>>}
    ELSE LET rest == StoredLists(n - 1)
         IN  rest \cup { Append(l, [ticker |-> WideAssets[n].ticker, shares |-> Num(k)]) :
                           l \in rest, k \in 0..MaxStoredShares }

StoredWide ==
    { Some([capital |-> Num(DefaultCapital), items |-> l]) :
        l \in StoredLists(Len(WideAssets)) }

\* Portfolios the save effect wrote: a capital the input allows, the holdings
\* of StoredLists (possibly after one of an instrument no longer listed).
StoredSaved ==
    { Some([capital |-> Num(50000), items |-> pre \o l]) :
        pre \in {<<>>, << [ticker |-> <<"Z">>, shares |-> Num(2)] >>},
        l \in StoredLists(3) }

-----------------------------------------------------------------------------
(* Watchlist server actions *)

UserIds      == {"u1", "u2"}
WatchTickers == {"NVDA", "MSFT"}

Row(u, t) == [userId |-> u, ticker |-> t]

\* A watchlistItem row for (userId, ticker) exists.
Watched(table, u, t) == \E i \in 1..Len(table) : table[i] = Row(u, t)

\* getUserWatchlist for userId u: findMany({ where: { userId } }), newest
\* first, mapped to the tickers.
getUserWatchlist(u) ==
    LET mine == SelectSeq(rows, LAMBDA r : r.userId = u)
    IN  [i \in 1..Len(mine) |-> mine[Len(mine) + 1 - i].ticker]

\* The calls that can be in flight at once: the asset page's and one made
\* elsewhere (another tab or device).
CallIds == {"page", "other"}

IdleCall == [at |-> "idle", userId |-> Null, ticker |-> "", isWatching |-> FALSE,
             found |-> FALSE]

InFlight(c) == calls[c].at \notin {"idle", "done", "threw"}

\* toggleWatchlist(ticker, isWatching) entered, auth() pending.
Invoke(c, caller, t, w) ==
    calls' = [calls EXCEPT ![c] = [at |-> "auth", userId |-> caller, ticker |-> t,
                                   isWatching |-> w, found |-> FALSE]]

\* A toggle that flips the stored state instead of taking its argument.
AuthorizeFlipping(c) ==
    /\ calls[c].at = "auth"
    /\ calls' = [calls EXCEPT ![c].at =
                    IF calls[c].userId = Null THEN "threw"
                    ELSE IF Watched(rows, calls[c].userId[1], calls[c].ticker)
                         THEN "delete" ELSE "find"]
    /\ UNCHANGED rows

\* const { userId } = await auth(); if (!userId) throw new Error("Unauthorized")
Authorize(c) ==
    /\ calls[c].at = "auth"
    /\ calls' = [calls EXCEPT ![c].at =
                    IF calls[c].userId = Null THEN "threw"
                    ELSE IF calls[c].isWatching THEN "delete" ELSE "find"]
    /\ UNCHANGED rows

\* prisma.watchlistItem.deleteMany({ where: { userId, ticker } })
DeleteMany(c) ==
    /\ calls[c].at = "delete"
    /\ rows' = SelectSeq(rows, LAMBDA r : r # Row(calls[c].userId[1], calls[c].ticker))
    /\ calls' = [calls EXCEPT ![c].at = "revalidate"]

\* upsert, first half: look the row up by its unique key.
UpsertFind(c) ==
    /\ calls[c].at = "find"
    /\ calls' = [calls EXCEPT ![c].at = "write",
                              ![c].found = Watched(rows, calls[c].userId[1], calls[c].ticker)]
    /\ UNCHANGED rows

\* The second half of an upsert on a table without the unique key.
UpsertWriteNoUniqueKey(c) ==
    /\ calls[c].at = "write"
    /\ rows' = IF calls[c].found THEN rows
               ELSE Append(rows, Row(calls[c].userId[1], calls[c].ticker))
    /\ calls' = [calls EXCEPT ![c].at = "revalidate"]

\* upsert, second half: update: {} when the row was found, create otherwise;
\* the unique key (userId, ticker) makes a create of an existing row fail.
UpsertWrite(c) ==
    /\ calls[c].at = "write"
    /\ IF calls[c].found
       THEN /\ UNCHANGED rows
            /\ calls' = [calls EXCEPT ![c].at = "revalidate"]
       ELSE IF Watched(rows, calls[c].userId[1], calls[c].ticker)
       THEN /\ UNCHANGED rows
            /\ calls' = [calls EXCEPT ![c].at = "threw"]
       ELSE /\ rows' = Append(rows, Row(calls[c].userId[1], calls[c].ticker))
            /\ calls' = [calls EXCEPT ![c].at = "revalidate"]

\* revalidatePath("/portfolio"); revalidatePath(`/asset/${ticker}`)
Revalidate(c) ==
    /\ calls[c].at = "revalidate"
    /\ calls' = [calls EXCEPT ![c].at = "done"]
    /\ UNCHANGED rows

\* An awaited operation rejects (database or network error).
Fails(c) ==
    /\ InFlight(c)
    /\ calls' = [calls EXCEPT ![c].at = "threw"]
    /\ UNCHANGED rows

\* One step of the server on call c.
ServerStep(c) ==
    \/ Authorize(c)
    \/ DeleteMany(c)
    \/ UpsertFind(c)
    \/ UpsertWrite(c)
    \/ Revalidate(c)
    \/ Fails(c)

\* The caller receives the result of a call made outside the asset page.
Return(c) ==
    /\ calls[c].at \in {"done", "threw"}
    /\ calls' = [calls EXCEPT ![c] = IdleCall]
    /\ UNCHANGED rows

Callers == {Null} \cup {Some(u) : u \in UserIds}

\* toggleWatchlist called directly.
toggleWatchlist(c, caller, t, w) ==
    /\ calls[c].at = "idle"
    /\ Invoke(c, caller, t, w)
    /\ UNCHANGED <<scrVars, secVars, portVars, pageVars, rows, session>>

ServerRuns(c) ==
    /\ ServerStep(c)
    /\ UNCHANGED <<scrVars, secVars, portVars, pageVars, session>>

Returns(c) ==
    /\ Return(c)
    /\ UNCHANGED <<scrVars, secVars, portVars, pageVars, session>>

InitRows ==
    { <<>>, << Row("u1", "NVDA") >>, << Row("u2", "NVDA"), Row("u1", "MSFT") >>,
      << Row("u1", "NVDA"), Row("u2", "MSFT"), Row("u2", "NVDA") >> }

NextWatchlist ==
    \/ \E c \in CallIds, caller \in Callers, t \in WatchTickers, w \in BOOLEAN :
          toggleWatchlist(c, caller, t, w)
    \/ \E c \in CallIds : ServerRuns(c)
    \/ \E c \in CallIds : Returns(c)

-----------------------------------------------------------------------------
(* AssetDetailClient *)

Pred(t, h, risk) ==
    [ticker |-> t, horizon |-> h, riskScore |-> risk, predictedAt |-> "2026-02-25"]

MOCK_PREDICTIONS ==
    << Pred("MSFT", "short", 2), Pred("ASML", "short", 3), Pred("PANW", "short", 3),
       Pred("JPM", "short", 2), Pred("VUSA.AS", "short", 1), Pred("SAP", "short", 2),
       Pred("NVDA", "short", 4), Pred("NOVO-B.CO", "short", 4),
       Pred("MC.PA", "short", 3), Pred("EIMI.AS", "short", 4),
       Pred("AAPL", "medium", 2), Pred("IWDA.AS", "medium", 1),
       Pred("MSFT", "medium", 2), Pred("ASML", "medium", 3),
       Pred("XOM", "medium", 4), Pred("NVDA", "medium", 5),
       Pred("IWDA.AS", "long", 1), Pred("MSFT", "long", 2),
       Pred("VUSA.AS", "long", 2) >>

\* allPredictions.filter((p) => p.ticker === ticker)
PredictionsFor(all, t) == SelectSeq(all, LAMBDA p : p.ticker = t)

\* userWatchlist.includes(ticker), the watchlist being [] without a user
IsWatchingInitial(u, t) ==
    u # Null /\ \E i \in 1..Len(getUserWatchlist(u[1])) : getUserWatchlist(u[1])[i] = t

\* <RiskDots score={predictions[0].riskScore} />, in the Risk Summary that
\* is rendered when predictions.length > 0
ShownRisk == IF Len(predictions) > 0 THEN Some(predictions[1].riskScore) ELSE Null

\* The threshold made inclusive.
VolumeRatioStatusInclusive(v) ==
    IF v = Null \/ v = Undefined THEN "none"
    ELSE IF IsNumber(v) /\ v[1] >= 30 THEN "anomaly"
    ELSE "neutral"

\* The status of the Volume Ratio cell (ratios in units of 1/10):
\*   features.volume_ratio != null
\*      ? (Number(features.volume_ratio) > 3 ? "anomaly" : "neutral") : undefined
VolumeRatioStatus(v) ==
    IF v = Null \/ v = Undefined THEN "none"
    ELSE IF IsNumber(v) /\ v[1] > 30 THEN "anomaly"
    ELSE "neutral"

VolumeRatios ==
    {Null, Undefined, NotANumber, Some(0), Some(29), Some(30), Some(31), Some(35)}

\* The click handler without the !isSignedIn return and without the button's
\* disabled={isPending}.
handleToggleWatchlistUnguarded ==
    /\ calls["page"].at \in {"idle", "done", "threw"}
    /\ beforeClick' = isWatching
    /\ newWatchingState' = ~ isWatching
    /\ isWatching' = ~ isWatching
    /\ isPending' = TRUE
    /\ Invoke("page", session, pageTicker, isWatching)
    /\ UNCHANGED <<scrVars, secVars, portVars, rows, session, pageTicker, predictions,
                   volumeRatio, isSignedIn>>

\* A click on the watchlist button, which is disabled while isPending.
handleToggleWatchlist ==
    /\ ~ isPending
    /\ IF ~ isSignedIn
       THEN UNCHANGED <<isWatching, isPending, newWatchingState, beforeClick, calls>>
       ELSE /\ beforeClick' = isWatching
            /\ newWatchingState' = ~ isWatching
            /\ isWatching' = ~ isWatching
            /\ isPending' = TRUE
            /\ Invoke("page", session, pageTicker, isWatching)
    /\ UNCHANGED <<scrVars, secVars, portVars, rows, session, pageTicker, predictions,
                   volumeRatio, isSignedIn>>

\* The server at work on the page's request.
PageRequestRuns ==
    /\ ServerStep("page")
    /\ UNCHANGED <<scrVars, secVars, portVars, pageVars, session>>

\* await toggleWatchlist(...) returns: the transition ends.
Resolved ==
    /\ calls["page"].at = "done"
    /\ calls' = [calls EXCEPT !["page"] = IdleCall]
    /\ isPending' = FALSE
    /\ UNCHANGED <<scrVars, secVars, portVars, rows, session, pageTicker, predictions,
                   volumeRatio, isSignedIn, isWatching, newWatchingState, beforeClick>>

\* The catch block with the revert left out.
RejectedNoRevert ==
    /\ calls["page"].at = "threw"
    /\ calls' = [calls EXCEPT !["page"] = IdleCall]
    /\ isPending' = FALSE
    /\ UNCHANGED <<scrVars, secVars, portVars, rows, session, pageTicker, predictions,
                   volumeRatio, isSignedIn, isWatching, newWatchingState, beforeClick>>

\* catch (error) { setIsWatching(!newWatchingState) }: the transition ends.
Rejected ==
    /\ calls["page"].at = "threw"
    /\ calls' = [calls EXCEPT !["page"] = IdleCall]
    /\ isWatching' = ~ newWatchingState
    /\ isPending' = FALSE
    /\ UNCHANGED <<scrVars, secVars, portVars, rows, session, pageTicker, predictions,
                   volumeRatio, isSignedIn, newWatchingState, beforeClick>>

\* The server-side session ends; the page still shows the user as signed in.
SessionExpires ==
    /\ session # Null
    /\ session' = Null
    /\ UNCHANGED <<scrVars, secVars, portVars, pageVars, rows, calls>>

PageTickers == {"NVDA", "MSFT", "AAPL", "ZZZ"}

InitWatchlistState(table, u) ==
    /\ rows = table
    /\ calls = [c \in CallIds |-> IdleCall]
    /\ session = u

\* The props AssetDetailPage passes and the state the component starts in.
InitPageState(t, ratio) ==
    /\ pageTicker = t
    /\ predictions = PredictionsFor(MOCK_PREDICTIONS, t)
    /\ volumeRatio = ratio
    /\ isSignedIn = (session # Null)
    /\ isWatching = IsWatchingInitial(session, t)
    /\ isPending = FALSE
    /\ newWatchingState = FALSE
    /\ beforeClick = FALSE

NextPage ==
    \/ handleToggleWatchlist
    \/ PageRequestRuns
    \/ Resolved
    \/ Rejected
    \/ SessionExpires

-----------------------------------------------------------------------------
(* Specifications *)

IdleScreener == items = <<>> /\ InitScreenerState
IdleSectors  == InitSectorsState(<<>>)
IdlePortfolio == InitPortfolioState(<<>>, Null)
IdleWatchlist == InitWatchlistState(<<>>, Null)
IdlePage      == InitPageState("", Null)

\* The watchlist server actions called concurrently.
InitWatchlist ==
    /\ \E table \in InitRows : InitWatchlistState(table, Null)
    /\ IdlePage /\ IdleScreener /\ IdleSectors /\ IdlePortfolio
SpecWatchlist ==
    InitWatchlist /\ [][NextWatchlist]_vars

\* The asset page of a ticker, its user clicking the watchlist button.
InitPage ==
    /\ \E table \in InitRows, u \in {Null, Some("u1")} : InitWatchlistState(table, u)
    /\ \E t \in PageTickers, ratio \in VolumeRatios : InitPageState(t, ratio)
    /\ IdleScreener /\ IdleSectors /\ IdlePortfolio
SpecPage ==
    InitPage /\ [][NextPage]_vars

\* The screener page over its record list.
InitScreener ==
    /\ items \in ItemLists /\ InitScreenerState
    /\ IdleSectors /\ IdlePortfolio /\ IdleWatchlist /\ IdlePage
SpecScreener ==
    InitScreener /\ [][NextScreener]_vars

\* The screener page over records with undefined and NaN technicals.
InitScreenerLoose ==
    /\ items = LooseCatalogue /\ InitScreenerState
    /\ IdleSectors /\ IdlePortfolio /\ IdleWatchlist /\ IdlePage
SpecScreenerLoose ==
    InitScreenerLoose /\ [][NextScreener]_vars

\* The sector page over every record list of up to MaxSecItems records.
InitSectors ==
    /\ \E l \in SecItemLists : InitSectorsState(l)
    /\ IdleScreener /\ IdlePortfolio /\ IdleWatchlist /\ IdlePage
SpecSectors ==
    InitSectors /\ [][NextSectors]_vars

\* The portfolio page, mounted and then edited by the user.
InitPortfolio ==
    /\ \E st \in StoredSmall : InitPortfolioState(SmallAssets, st)
    /\ IdleScreener /\ IdleSectors /\ IdleWatchlist /\ IdlePage
SpecPortfolio ==
    InitPortfolio /\ [][NextPortfolio]_vars

\* The portfolio page mounted over a stored portfolio.
InitMetrics ==
    /\ \E st \in StoredWide : InitPortfolioState(WideAssets, st)
    /\ IdleScreener /\ IdleSectors /\ IdleWatchlist /\ IdlePage
SpecMetrics ==
    InitMetrics /\ [][NextMount]_vars

\* The portfolio page mounted over a portfolio it saved earlier, its mount
\* effects run once or, under StrictMode, twice.
InitMount ==
    /\ \E st \in StoredSaved, first \in {"load", "strict-load"} :
          InitMountState(WideAssets, st, first)
    /\ IdleScreener /\ IdleSectors /\ IdleWatchlist /\ IdlePage
SpecMount ==
    InitMount /\ [][NextMount]_vars

Spec == SpecPortfolio

-----------------------------------------------------------------------------
(* Claims *)

RECURSIVE SetSum(_, _)
\* The sum of f[x] over the finite set S.
SetSum(f, S) ==
    IF S = {} THEN 0
    ELSE LET x == CHOOSE x \in S : TRUE IN f[x] + SetSum(f, S \ {x})

InResult(item) == \E j \in 1..Len(filtered) : filtered[j] = item

\* text occurs in s, letter case ignored
ContainsIgnoringCase(s, text) ==
    \E i \in 1..(Len(s) - Len(text) + 1) :
        \A k \in 1..Len(text) : Lower(s[i + k - 1]) = Lower(text[k])

\* The conjunction of the active constraints, with inclusive bounds.
SatisfiesAll(item) ==
    /\ search # <<>> => \/ ContainsIgnoringCase(item.ticker, search)
                        \/ ContainsIgnoringCase(item.name, search)
    /\ sector # "all" => item.sector = sector
    /\ region # "all" => item.region = region
    /\ assetType # "all" => item.assetType = assetType
    /\ trendFilter # "all" => item.shortTrend = trendFilter
    /\ rsiMin # Empty => item.rsi # Null /\ item.rsi[1] >= rsiMin[1]
    /\ rsiMax # Empty => item.rsi # Null /\ item.rsi[1] <= rsiMax[1]
    /\ adxMin # Empty => item.adx # Null /\ item.adx[1] >= adxMin[1]
    /\ volMin # Empty => /\ item.volatility20d # Null
                         /\ item.volatility20d[1] >= 10 * volMin[1]
    /\ riskMax # Empty => item.riskScore <= riskMax[1]
    /\ volRatioMin # Empty => /\ item.volumeRatio # Null
                              /\ item.volumeRatio[1] >= 10 * volRatioMin[1]

\* C1: a record is in the filtered result if and only if it satisfies every
\* active constraint (AND), numeric bounds being inclusive and the search
\* matching ticker or name whatever the letter case; an inactive constraint
\* excludes nothing.
C1_FilterCorrect ==
    \A i \in 1..Len(items) : InResult(items[i]) <=> SatisfiesAll(items[i])

\* A search and an RSI maximum are active, a record sitting exactly on the
\* bound is kept and other records are dropped.
C1_Witness ==
    /\ search = <<"a","B">> /\ rsiMax = Some(30)
    /\ \E j \in 1..Len(filtered) : filtered[j].rsi = Some(30)
    /\ Len(filtered) < Len(items)

\* C7: while a range constraint on rsi, adx, volatility20d or volumeRatio is
\* active, no record whose value for that field is null is in the result,
\* whatever the bound (0 included).
C7_NullExcluded ==
    \A j \in 1..Len(filtered) :
        /\ (rsiMin # Empty \/ rsiMax # Empty) => filtered[j].rsi # Null
        /\ adxMin # Empty => filtered[j].adx # Null
        /\ volMin # Empty => filtered[j].volatility20d # Null
        /\ volRatioMin # Empty => filtered[j].volumeRatio # Null

\* Every minimum is 0, which a value of 0 satisfies: the record with real
\* zeros is kept and the records with a null are dropped.
C7_Witness ==
    /\ rsiMin = Some(0) /\ adxMin = Some(0) /\ volMin = Some(0)
    /\ volRatioMin = Some(0) /\ rsiMax = Empty /\ riskMax = Empty
    /\ search = <<>> /\ sector = "all" /\ region = "all"
    /\ assetType = "all" /\ trendFilter = "all"
    /\ \E j \in 1..Len(filtered) : filtered[j].rsi = Some(0)
    /\ \E i \in 1..Len(items) : items[i].rsi = Null /\ ~ InResult(items[i])
    /\ \E i \in 1..Len(items) : items[i].adx = Null /\ ~ InResult(items[i])

\* Indices of the members of a sector that have a value for field f.
WithValue(name, f) ==
    {i \in 1..Len(secItems) : GroupKey(secItems[i]) = name /\ secItems[i][f] # Null}

ValueSum(name, f) ==
    SetSum([i \in 1..Len(secItems) |-> OrZero(secItems[i][f])], WithValue(name, f))

\* mean20 - mean60/3 compared with band/1000, as an integer: the sign of
\*   3 * n20 * n60 * (mean20 - mean60 / 3 - band)
\* where a mean over no value is 0.
MomentumGap(name, band) ==
    LET n20 == Cardinality(WithValue(name, "return20d"))
        n60 == Cardinality(WithValue(name, "return60d"))
        d20 == IF n20 = 0 THEN 1 ELSE n20
        d60 == IF n60 = 0 THEN 1 ELSE n60
    IN  3 * d60 * ValueSum(name, "return20d")
          - d20 * ValueSum(name, "return60d") - 3 * d20 * d60 * band

\* C4: with m20 the sector's mean 20-day return and q its mean 60-day return
\* divided by 3, the label is accelerating iff m20 > q + 0.005, decelerating
\* iff m20 < q - 0.005 and stable otherwise, band edges included; so
\* (0.010, 0.03) is stable, (0.016, 0.03) accelerating, (0.004, 0.03)
\* decelerating.
C4_Momentum ==
    \A i \in 1..Len(sectorStats) :
        LET st == sectorStats[i]
        IN  /\ st.momentum \in {"accelerating", "stable", "decelerating"}
            /\ st.momentum = "accelerating" <=> MomentumGap(st.name, 5) > 0
            /\ st.momentum = "decelerating" <=> MomentumGap(st.name, -5) < 0
            /\ (JsEq(st.avgReturn60d, Num(30)) /\ JsEq(st.avgReturn20d, Num(10)))
                   => st.momentum = "stable"
            /\ (JsEq(st.avgReturn60d, Num(30)) /\ JsEq(st.avgReturn20d, Num(16)))
                   => st.momentum = "accelerating"
            /\ (JsEq(st.avgReturn60d, Num(30)) /\ JsEq(st.avgReturn20d, Num(4)))
                   => st.momentum = "decelerating"

\* Two sectors side by side: one at (0.016, 0.03), labelled accelerating, and
\* one exactly on the upper band edge (0.015, 0.03), labelled stable.
C4_Witness ==
    /\ \E i \in 1..Len(sectorStats) :
          /\ JsEq(sectorStats[i].avgReturn20d, Num(16))
          /\ JsEq(sectorStats[i].avgReturn60d, Num(30))
          /\ sectorStats[i].momentum = "accelerating"
    /\ \E i \in 1..Len(sectorStats) :
          /\ JsEq(sectorStats[i].avgReturn20d, Num(15))
          /\ JsEq(sectorStats[i].avgReturn60d, Num(30))
          /\ sectorStats[i].momentum = "stable"

\* ---- screener sort ----

\* The UTF-16 code unit of a letter.
CodeUnit(c) ==
    CASE c = "A" -> 65 [] c = "B" -> 66 [] c = "X" -> 88
      [] c = "a" -> 97 [] c = "b" -> 98 [] c = "x" -> 120

\* Lexicographic comparison of two strings, code unit by code unit.
LexCompare(s, t) ==
    SeqCompare([i \in 1..Len(s) |-> CodeUnit(s[i])],
               [i \in 1..Len(t) |-> CodeUnit(t[i])])

\* Dictionary comparison: the strings with their case folded compare
\* lexicographically; when these are equal the first letter that differs in
\* case decides, the lower-case one first.
DictCompare(s, t) ==
    LET fs == [i \in 1..Len(s) |-> CodeUnit(Lower(s[i]))]
        ft == [i \in 1..Len(t) |-> CodeUnit(Lower(t[i]))]
    IN  IF fs # ft THEN SeqCompare(fs, ft)
        ELSE SeqCompare([i \in 1..Len(s) |-> -CodeUnit(s[i])],
                        [i \in 1..Len(t) |-> -CodeUnit(t[i])])

\* The value a numeric field is ordered by: null counts as 0.
ValueOrZero(item, field) ==
    IF field \in NullableFields /\ item[field] = Null THEN 0
    ELSE IF field \in NullableFields THEN item[field][1] ELSE item[field]

PosIn(list, rec) == CHOOSE k \in 1..Len(list) : list[k] = rec

\* out is inp reordered so that two records whose keys compare as c(i, j)
\* (negative: i first when ascending) stand in the selected direction, and
\* records with equal keys stand in their order in inp.
SortedStably(out, inp, c) ==
    /\ Len(out) = Len(inp)
    /\ \A i \in 1..Len(inp) : \E k \in 1..Len(out) : out[k] = inp[i]
    /\ \A i, j \in 1..Len(inp) :
          i < j =>
            LET pi == PosIn(out, inp[i])
                pj == PosIn(out, inp[j])
            IN  IF c[i][j] = 0 THEN pi < pj
                ELSE IF (c[i][j] < 0) <=> (sortDir = "asc") THEN pi < pj
                ELSE pj < pi

\* How the keys of the records of inp compare, the tickers by tc.
KeyCompare(inp, tc) ==
    [i \in 1..Len(inp) |-> [j \in 1..Len(inp) |->
        IF sortField = "ticker" THEN tc[i][j]
        ELSE Sgn(ValueOrZero(inp[i], sortField) - ValueOrZero(inp[j], sortField))]]

C19_InvalidExcluded ==
    \A j \in 1..Len(filtered) :
        /\ (rsiMin # Empty \/ rsiMax # Empty) => IsNumber(filtered[j].rsi)
        /\ adxMin # Empty => IsNumber(filtered[j].adx)
        /\ volMin # Empty => IsNumber(filtered[j].volatility20d)
        /\ volRatioMin # Empty => IsNumber(filtered[j].volumeRatio)

\* C18: no screener operation changes the input record list: whatever filter
\* and sort settings are chosen, and the filtered and sorted lists computed
\* from them, the record list keeps the same records in the same order.
C18_InputUntouched ==
    [][items' = items]_vars

\* The sort has reordered its output: after a change of the sort setting and
\* with a filter set, the sorted list is in another order than the records
\* have in the input.
C18_Witness ==
    /\ sortField # "mediumReturn"
    /\ Len(filtered) >= 2 /\ Len(filtered) < Len(items)
    /\ sorted # filtered

\* ---- sector summaries ----

\* The records of a sector, by their place in the record list.
Members(name) == {i \in 1..Len(secItems) : GroupKey(secItems[i]) = name}

\* What a record holds for a metric: a number, null, NaN or undefined.
Held4(item, f) == IF f \in NullableFields THEN item[f] ELSE Some(item[f])

Eligible(name, f) == {i \in Members(name) : IsNumber(Held4(secItems[i], f))}

\* The arithmetic mean of metric f over the eligible members, 0 without any.
MeanOf(name, f) ==
    IF Eligible(name, f) = {} THEN Num(0)
    ELSE Frac(SetSum([i \in 1..Len(secItems) |->
                        IF i \in Eligible(name, f)
                        THEN Held4(secItems[i], f)[1] ELSE 0],
                     Eligible(name, f)),
              Cardinality(Eligible(name, f)))

\* Each reported average and the metric it averages.
Averages ==
    { <<"avgChange", "changePercent">>, <<"avgReturn20d", "return20d">>,
      <<"avgReturn60d", "return60d">>, <<"avgRsi", "rsi">>,
      <<"avgVolatility", "volatility20d">>, <<"avgRisk", "riskScore">>,
      <<"avgShortReturn", "shortReturn">>, <<"avgMediumReturn", "mediumReturn">> }

\* C12: each reported sector average is the arithmetic mean over exactly the
\* members whose value for the metric is a finite number; null (also NaN and
\* undefined) counts in neither numerator nor denominator, and a metric with
\* no eligible value reports 0.
C12_SectorAverages ==
    \A k \in 1..Len(sectorStats) :
        \A p \in Averages :
            JsEq(sectorStats[k][p[1]], MeanOf(sectorStats[k].name, p[2]))

\* A sector of two members where rsi is a number for one and null or
\* undefined for the other, and volatility is NaN for one of them.
C12_Witness ==
    \E k \in 1..Len(sectorStats) :
        LET name == sectorStats[k].name
        IN  /\ Cardinality(Members(name)) = 2
            /\ Cardinality(Eligible(name, "rsi")) = 1
            /\ JsGt(sectorStats[k].avgRsi, Num(0))
            /\ \E i \in Members(name) : secItems[i].volatility20d = NotANumber
            /\ Cardinality(Eligible(name, "volatility20d")) = 1
            /\ Cardinality(Eligible(name, "return60d")) = 0
            /\ JsEq(sectorStats[k].avgReturn60d, Num(0))

\* The summary a record belongs in.
NameFor(item) == IF item.sector = "" THEN "Diversified" ELSE item.sector

\* The summaries that list a record among their members.
SummariesOf(item) ==
    {k \in 1..Len(sectorStats) :
        \E m \in 1..Len(sectorStats[k].assets) : sectorStats[k].assets[m] = item}

\* C13: every input record is in exactly one summary, the one named by its
\* sector ('Diversified' for an empty sector); there is one summary per
\* distinct sector name, none is empty, each count is the number of members
\* and the counts sum to the number of input records.
C13_SectorPartition ==
    /\ \A i \in 1..Len(secItems) :
          /\ Cardinality(SummariesOf(secItems[i])) = 1
          /\ \A k \in SummariesOf(secItems[i]) :
                sectorStats[k].name = NameFor(secItems[i])
    /\ \A k, l \in 1..Len(sectorStats) :
          sectorStats[k].name = sectorStats[l].name => k = l
    /\ \A k \in 1..Len(sectorStats) :
          /\ sectorStats[k].count > 0
          /\ sectorStats[k].count = Len(sectorStats[k].assets)
          /\ \A m, n \in 1..Len(sectorStats[k].assets) :
                sectorStats[k].assets[m] = sectorStats[k].assets[n] => m = n
          /\ \A m \in 1..Len(sectorStats[k].assets) :
                \E i \in 1..Len(secItems) : secItems[i] = sectorStats[k].assets[m]
    /\ SetSum([k \in 1..Len(sectorStats) |-> sectorStats[k].count],
              1..Len(sectorStats)) = Len(secItems)

\* Two summaries, one of them 'Diversified' and holding a record whose
\* sector is empty, with a sector selected (its detail view rendered).
C13_Witness ==
    /\ Len(sectorStats) = 2 /\ selectedSector # Null
    /\ \E k \in 1..Len(sectorStats) :
          /\ sectorStats[k].name = "Diversified"
          /\ sectorStats[k].assets[1].sector = ""

\* The number of members of a sector whose short-horizon trend is t.
TrendCount(name, t) ==
    Cardinality({i \in Members(name) : secItems[i].shortTrend = t})

\* C15: bullishPct and bearishPct are the numbers of members whose
\* short-horizon trend is bullish, respectively bearish, divided by count;
\* each lies in [0, 1] and their sum is at most 1, the remainder being the
\* neutral members.
C15_SentimentMix ==
    \A k \in 1..Len(sectorStats) :
        LET name == sectorStats[k].name
            bull == sectorStats[k].bullishPct
            bear == sectorStats[k].bearishPct
        IN  /\ JsEq(bull, Frac(TrendCount(name, "bullish"), sectorStats[k].count))
            /\ JsEq(bear, Frac(TrendCount(name, "bearish"), sectorStats[k].count))
            /\ ~ JsLt(bull, Num(0)) /\ ~ JsGt(bull, Num(1))
            /\ ~ JsLt(bear, Num(0)) /\ ~ JsGt(bear, Num(1))
            /\ bull.k = "fin" /\ bear.k = "fin"
            /\ ~ JsGt(JsAdd(bull, bear), Num(1))
            /\ JsEq(JsSub(Num(1), JsAdd(bull, bear)),
                    Frac(TrendCount(name, "neutral"), sectorStats[k].count))

\* A sector of one bullish and one neutral member whose medium-horizon
\* trends are the other way round: half bullish, none bearish.
C15_Witness ==
    \E k \in 1..Len(sectorStats) :
        /\ sectorStats[k].count = 2
        /\ JsEq(sectorStats[k].bullishPct, Frac(1, 2))
        /\ JsEq(sectorStats[k].bearishPct, Num(0))
        /\ \E m, n \in 1..2 :
              /\ sectorStats[k].assets[m].shortTrend = "bullish"
              /\ sectorStats[k].assets[m].mediumTrend = "bearish"
              /\ sectorStats[k].assets[n].shortTrend = "neutral"
              /\ sectorStats[k].assets[n].mediumTrend = "bullish"

\* The 20-day return a member is ranked by: a missing one ranks as 0.
RankedReturn(i) == OrZero(secItems[i].return20d)

\* i comes before j in the ranking: higher 20-day return first, equal returns
\* in input order.
Outranks(i, j) ==
    \/ RankedReturn(i) > RankedReturn(j)
    \/ (RankedReturn(i) = RankedReturn(j) /\ i < j)

\* The member of a sector at place p of its ranking.
Ranked(name, p) ==
    secItems[CHOOSE i \in Members(name) :
                Cardinality({j \in Members(name) : Outranks(j, i)}) = p - 1]

Min3(n) == IF n < 3 THEN n ELSE 3

\* topPerformers is the first min(3, count) members of the ranking.
TopIsFirstThree(k) ==
    LET name == sectorStats[k].name
        top  == sectorStats[k].topPerformers
    IN  /\ Len(top) = Min3(Cardinality(Members(name)))
        /\ \A p \in 1..Len(top) : top[p] = Ranked(name, p)

\* C14 as stated: worstPerformers is the last min(3, count) members of the
\* ranking, presented as they are ranked (descending return, equal returns in
\* input order).
C14_TopWorst ==
    \A k \in 1..Len(sectorStats) :
        LET name  == sectorStats[k].name
            n     == Cardinality(Members(name))
            worst == sectorStats[k].worstPerformers
        IN  /\ TopIsFirstThree(k)
            /\ Len(worst) = Min3(n)
            /\ \A p \in 1..Len(worst) : worst[p] = Ranked(name, n - Len(worst) + p)

\* C14 amended: topPerformers is the first min(3, count) members of the
\* ranking (20-day return descending, a missing return as 0, equal returns in
\* input order); worstPerformers is the last min(3, count) members of it in
\* reverse, the lowest return first and equal returns in reverse input order.
C14_TopWorstReversed ==
    \A k \in 1..Len(sectorStats) :
        LET name  == sectorStats[k].name
            n     == Cardinality(Members(name))
            worst == sectorStats[k].worstPerformers
        IN  /\ TopIsFirstThree(k)
            /\ Len(worst) = Min3(n)
            /\ \A p \in 1..Len(worst) : worst[p] = Ranked(name, n + 1 - p)

\* A sector of more than three members whose two lowest returns are equal
\* and whose third lowest is higher, so that the two lists differ.
C14_Witness ==
    \E k \in 1..Len(sectorStats) :
        LET worst == sectorStats[k].worstPerformers
            top   == sectorStats[k].topPerformers
        IN  /\ sectorStats[k].count > 3
            /\ Len(worst) = 3 /\ Len(top) = 3
            /\ OrZero(worst[1].return20d) = OrZero(worst[2].return20d)
            /\ OrZero(worst[2].return20d) < OrZero(worst[3].return20d)
            /\ top[1] # worst[3]
            /\ OrZero(top[1].return20d) = OrZero(top[2].return20d)

\* C16: computing the summaries again from the unchanged record list and the
\* same heat metric gives a list identical to the one computed before and
\* held since (same sectors, order, statistics, performer and member lists),
\* also after a sector has been selected and displayed in between.
C16_Idempotent ==
    sectorStats = ComputeSectorStats(secItems, heatMetric)

\* C17: a step that does not recompute the summaries (the record list and
\* the heat metric stay as they are) leaves every summary as it was, member
\* order included.
C17_NoInPlaceMutation ==
    [][(secItems' = secItems /\ heatMetric' = heatMetric)
          => sectorStats' = sectorStats]_vars

\* ---- portfolio ----

\* x is a whole, finite, non-negative number
WholeNonNeg(x) == x.k = "fin" /\ x.d = 1 /\ x.n >= 0

Holdings == 1..Len(portfolio)
PriceAt(i) == AssetOf(portfolio[i].ticker).price

\* Capital is a positive whole amount, every holding has a whole, finite,
\* non-negative share count and a known (positive) price.
WellFormed ==
    /\ WholeNonNeg(capital) /\ capital.n > 0
    /\ \A i \in Holdings : WholeNonNeg(portfolio[i].shares) /\ PriceAt(i) > 0

\* shares_i * price_i, for a well-formed state
IntValue(i) == PriceAt(i) * portfolio[i].shares.n
Invested    == SetSum([i \in Holdings |-> IntValue(i)], Holdings)

WeightSum == SumSeq([i \in Holdings |-> WeightOf(portfolio[i])])

\* C2: cashValue + sum(shares_i * price_i) = capital and
\* sum(weight_i) + cashValue / capital = 1, in every portfolio state reached
\* through addAsset, removeAsset, updateShares, updateWeight and capital edits.
C2_WeightConservation ==
    WellFormed =>
        /\ JsEq(JsAdd(cashValue, totalValue), capital)
        /\ JsEq(JsAdd(WeightSum, JsDiv(cashValue, capital)), Num(1))

\* C3: the per-holding weights shares * price / capital sum to at most 1 in
\* every reachable portfolio state.
C3_WeightsAtMostOne ==
    WellFormed => Invested <= capital.n

\* The holdings something is invested in, and what they span.
InvestedIdx    == {i \in Holdings : IntValue(i) > 0}
SectorOf(i)    == AssetOf(portfolio[i].ticker).sector
SectorsHeld    == {SectorOf(i) : i \in InvestedIdx}
RegionsHeld    == {AssetOf(portfolio[i].ticker).region : i \in InvestedIdx}
SectorValue(x) ==
    SetSum([i \in Holdings |-> IntValue(i)], {i \in InvestedIdx : SectorOf(i) = x})
EtfValue ==
    SetSum([i \in Holdings |-> IntValue(i)],
           {i \in InvestedIdx : AssetOf(portfolio[i].ticker).assetType = "etf"})
\* the largest sector value (there is one when something is invested)
MaxSectorValue ==
    LET x == CHOOSE x \in SectorsHeld :
                 \A y \in SectorsHeld : SectorValue(y) <= SectorValue(x)
    IN  SectorValue(x)

Clamp(x, lo, hi) == IF x < lo THEN lo ELSE IF x > hi THEN hi ELSE x
Ind(b) == IF b THEN 1 ELSE 0

\* The score the rule of C5 gives, sectors, regions and re-normalised weights
\* being those of the holdings with something invested in them.
RuleScore ==
    Clamp(5 + 2 * Ind(Cardinality(SectorsHeld) >= 5)
            - 2 * Ind(Cardinality(SectorsHeld) = 1)
            - Ind(2 * MaxSectorValue > Invested)
            + Ind(4 * MaxSectorValue < Invested)
            + Ind(10 * EtfValue > Invested)
            + Ind(Cardinality(RegionsHeld) > 1), 1, 10)

\* C5: for a portfolio with at least one holding (and something invested) the
\* diversification score is the integer in 1..10 given by the rule: 5, +2 for
\* five sectors or more, -2 for exactly one, -1 when a sector's re-normalised
\* weight exceeds 0.5, +1 when the largest is below 0.25, +1 when the ETF
\* weight exceeds 0.10, +1 for more than one region, clamped to [1, 10].
C5_DivScoreRule ==
    (WellFormed /\ metrics # Null /\ Invested > 0) =>
        /\ metrics[1].divScore \in 1..10
        /\ metrics[1].divScore = RuleScore

\* C6: a portfolio of a single instrument scores at most 4 whatever its share
\* count; a portfolio over 6 sectors and 2 regions that includes an ETF and
\* whose largest re-normalised sector weight is 0.2 scores at least 9.
C6_DivScoreBounds ==
    (WellFormed /\ metrics # Null) =>
        /\ Len(portfolio) = 1 => metrics[1].divScore <= 4
        /\ ( /\ Cardinality(SectorsHeld) = 6 /\ Cardinality(RegionsHeld) = 2
             /\ EtfValue > 0 /\ 5 * MaxSectorValue = Invested )
              => metrics[1].divScore >= 9

RECURSIVE SumCounts(_, _)
\* The sum of the values of a weight table.
SumCounts(counts, keys) ==
    IF keys = {} THEN Num(0)
    ELSE LET k == CHOOSE k \in keys : TRUE
             rest == SumCounts(counts, keys \ {k})
         IN  JsAdd(rest, Get(counts, k))

\* sum(f_i * value_i) / sum(value_i), for the asset field f
ValueWeightedMean(f) ==
    Frac(SetSum([i \in Holdings |-> AssetOf(portfolio[i].ticker)[f] * IntValue(i)],
                Holdings), Invested)

\* C8: when the invested weight is positive the re-normalised weights sum to
\* 1 and avgRisk, expected30d and expected12m are the means of riskScore,
\* shortReturn and mediumReturn weighted by them (cash left out); when no
\* holding has any value all three are 0.
C8_WeightedMetrics ==
    (WellFormed /\ metrics # Null) =>
        \A m \in {metrics[1]} :
            /\ Invested > 0 =>
                  /\ JsEq(SumCounts(m.sectorCounts, Keys(m.sectorCounts)), Num(1))
                  /\ JsEq(m.avgRisk, ValueWeightedMean("riskScore"))
                  /\ JsEq(m.expected30d, ValueWeightedMean("shortReturn"))
                  /\ JsEq(m.expected12m, ValueWeightedMean("mediumReturn"))
            /\ Invested = 0 =>
                  /\ JsEq(m.avgRisk, Num(0)) /\ JsEq(m.expected30d, Num(0))
                  /\ JsEq(m.expected12m, Num(0))

\* Three holdings or more with unequal positions, part of the capital left in
\* cash, and a weighted risk that is not a whole number.
C8_Witness ==
    /\ pc = "ready" /\ WellFormed /\ Len(portfolio) >= 3
    /\ Invested > 0 /\ Invested < capital.n
    /\ \E i, j \in Holdings : 0 < IntValue(i) /\ IntValue(i) < IntValue(j)
    /\ metrics[1].avgRisk.d > 1

\* C20: empty inputs give neutral results: an empty record list gives an
\* empty screener result (filtered and sorted) and an empty sector list; a
\* portfolio without holdings has no metrics, invested value 0 and a cash
\* value equal to the capital.
C20_EmptyNeutral ==
    /\ items = <<>> => (filtered = <<>> /\ sorted = <<>>)
    /\ secItems = <<>> => sectorStats = <<>>
    /\ portfolio = <<>> =>
          /\ metrics = Null
          /\ JsEq(totalValue, Num(0))
          /\ JsEq(cashValue, ToNumber(capital))

\* C9: updateWeight with a target percentage in [0, 100] sets the holding's
\* shares to floor(capital * pct / 100 / price), a whole, finite,
\* non-negative number for every price the record may carry (0 included); a
\* percentage outside [0, 100] changes nothing.
C9_TargetWeight ==
    [][ \A t \in Tickers(assets), w \in PercentInputs :
          (updateWeight(t, w) /\ Held(t) /\ WholeNonNeg(capital)) =>
             IF w.n >= 0 /\ w.n <= 100
             THEN \A i \in Holdings :
                    portfolio[i].ticker = t =>
                      /\ WholeNonNeg(portfolio'[i].shares)
                      /\ PriceAt(i) > 0 =>
                            portfolio'[i].shares.n
                              = (capital.n * w.n) \div (100 * PriceAt(i))
             ELSE UNCHANGED <<portfolio, capital>> ]_vars

\* C10: negative shares and non-positive capital never enter the state: in
\* every reachable state capital > 0 and every holding has shares >= 0.
C10_ValidState ==
    /\ JsGt(capital, Num(0))
    /\ \A i \in Holdings : ~ JsLt(ToNumber(portfolio[i].shares), Num(0))

\* C21: no two holdings have the same ticker, and the add-asset search offers
\* no instrument that is already held.
C21_UniqueHoldings ==
    /\ \A i, j \in 1..Len(portfolio) :
          portfolio[i].ticker = portfolio[j].ticker => i = j
    /\ \A k \in 1..Len(searchResults) : ~ Held(searchResults[k].ticker)

\* ---- asset page ----

\* C22: the Volume Ratio cell flags an anomaly if and only if the ratio is a
\* number strictly greater than 3.0: 3.5 is flagged, 2.9 and exactly 3.0 are
\* not, and a missing ratio (null, undefined, not a number) is never flagged.
C22_VolumeAnomaly ==
    /\ VolumeRatioStatus(volumeRatio) = "anomaly"
          <=> (IsNumber(volumeRatio) /\ volumeRatio[1] > 30)
    /\ volumeRatio = Some(35) => VolumeRatioStatus(volumeRatio) = "anomaly"
    /\ volumeRatio \in {Some(29), Some(30)} => VolumeRatioStatus(volumeRatio) = "neutral"
    /\ ~ IsNumber(volumeRatio) => VolumeRatioStatus(volumeRatio) # "anomaly"

\* The page of an instrument whose ratio is exactly 3.0, shown as neutral
\* while its watchlist request is in flight.
C22_Witness ==
    /\ volumeRatio = Some(30) /\ VolumeRatioStatus(volumeRatio) = "neutral"
    /\ pageTicker = "NVDA" /\ isPending

\* C23: the predictions of the page's ticker made on the same date carry one
\* riskScore, so that the risk shown, predictions[0].riskScore, is the risk of
\* each horizon.
C23_RiskAssetLevel ==
    \A i, j \in 1..Len(predictions) :
        predictions[i].predictedAt = predictions[j].predictedAt
            => /\ predictions[i].riskScore = predictions[j].riskScore
               /\ ShownRisk = Some(predictions[i].riskScore)

\* ---- persistence ----

\* The saved holdings whose tickers exist in the current asset set.
KnownAtMount ==
    SelectSeq(atMount[1].items, LAMBDA pi : pi.ticker \in Tickers(assets))

\* C24: once the mount effects and the re-render they cause have run,
\* however often the effects were run, the holdings in memory are the saved
\* holdings of known tickers, capital is the saved capital, and local
\* storage holds that same portfolio.
C24_RoundTrip ==
    (pc = "ready" /\ atMount # Null) =>
        /\ portfolio = KnownAtMount
        /\ capital = atMount[1].capital
        /\ storage = Saved(atMount[1].capital, KnownAtMount)

\* ---- watchlist ----

NoRepeat(seq) == \A i, j \in 1..Len(seq) : seq[i] = seq[j] => i = j

\* C25: whatever way concurrent toggleWatchlist calls interleave, the table
\* never holds two rows for one (userId, ticker) pair and getUserWatchlist
\* never returns a ticker twice.
C25_UniqueRows ==
    /\ NoRepeat(rows)
    /\ \A u \in UserIds : NoRepeat(getUserWatchlist(u))

\* Two adds of one ticker by one user race: both looked the row up before
\* either created it, one has created it, the other is about to write.
C25_Witness ==
    /\ calls["page"].at = "write" /\ ~ calls["page"].found
    /\ calls["other"].at = "revalidate" /\ ~ calls["other"].found
    /\ calls["page"].userId = calls["other"].userId
    /\ calls["page"].ticker = calls["other"].ticker
    /\ Watched(rows, calls["page"].userId[1], calls["page"].ticker)

\* The rows of the table other than those of (userId, ticker), in order.
OtherRows(table, u, t) == SelectSeq(table, LAMBDA r : r # Row(u, t))

\* C26: a toggleWatchlist(ticker, isWatching) call that runs alone leaves
\* the ticker in the caller's watchlist iff isWatching was false, whatever
\* the table held; it changes nothing when the table already agrees with
\* its argument; it never changes a row of another user or ticker; and a
\* call without a user throws and changes nothing.
C26_SetsMembership ==
    [][LET k == calls["page"]
       IN  /\ k.userId = Null =>
                /\ rows' = rows
                /\ k.at \in {"idle", "threw", "auth"}
                /\ (k.at = "auth" /\ calls'["page"] # k) => calls'["page"].at = "threw"
           /\ (k.userId # Null /\ k.at # "idle") =>
                /\ OtherRows(rows', k.userId[1], k.ticker)
                      = OtherRows(rows, k.userId[1], k.ticker)
                /\ (Watched(rows, k.userId[1], k.ticker) <=> ~ k.isWatching)
                      => rows' = rows
                /\ (k.at # "done" /\ calls'["page"].at = "done") =>
                      (Watched(rows', k.userId[1], k.ticker) <=> ~ k.isWatching)
           /\ k.at = "idle" => rows' = rows
      ]_vars

\* Calls completed against a table that disagreed with the page: an add of
\* a row that already existed, with other users' rows in the table.
C26_Witness ==
    /\ calls["page"].at = "done"
    /\ calls["page"].userId = Some("u1")
    /\ ~ calls["page"].isWatching /\ calls["page"].found
    /\ Watched(rows, "u1", calls["page"].ticker)
    /\ \E i \in 1..Len(rows) : rows[i].userId = "u2"

\* The page's request starts in this step.
RequestSent == calls["page"].at = "idle" /\ calls'["page"].at = "auth"

\* C27: signed out, a click changes nothing and sends no request; signed
\* in, a click flips isWatching at once and requests the membership equal
\* to the flipped value; a failed request puts isWatching back to its value
\* before the click, a successful one leaves it equal to the server-side
\* membership of the ticker; no request starts while one is pending.
C27_OptimisticToggle ==
    [][/\ ~ isSignedIn => (isWatching' = isWatching /\ calls' = calls)
       /\ RequestSent =>
             /\ isSignedIn /\ ~ isPending /\ isPending'
             /\ isWatching' = ~ isWatching
             /\ calls'["page"].ticker = pageTicker
             /\ ~ calls'["page"].isWatching = isWatching'
       /\ calls'["page"].at # "idle" => isPending'
       /\ (calls["page"].at = "threw" /\ calls'["page"].at = "idle") =>
             isWatching' = beforeClick
       /\ (calls["page"].at = "done" /\ calls'["page"].at = "idle") =>
             isWatching' = Watched(rows', calls["page"].userId[1], pageTicker)
       /\ isWatching' # isWatching =>
             (RequestSent \/ calls["page"].at = "threw")
      ]_vars

\* A signed-in user clicked on an unwatched ticker, the request failed after
\* the server had created the row, and isWatching is back to false.
C27_Witness ==
    /\ isSignedIn /\ ~ isPending /\ calls["page"].at = "idle"
    /\ newWatchingState /\ ~ beforeClick /\ ~ isWatching
    /\ session # Null /\ Watched(rows, session[1], pageTicker)

\* ---- portfolio edits ----

\* The user adds a holding in this step.
Added == pc = "ready" /\ Len(portfolio') = Len(portfolio) + 1

\* C28: addAsset appends exactly one holding, with
\* max(1, floor(0.10 * capital / price)) shares, a whole number of at least
\* 1; the new holding's value does not exceed capital; the existing
\* holdings and the capital are unchanged, the search query is cleared and
\* the search closed.
C28_DefaultPosition ==
    [][Added =>
         LET new == portfolio'[Len(portfolio')]
             price == Num(AssetOf(new.ticker).price)
         IN  /\ SubSeq(portfolio', 1, Len(portfolio)) = portfolio
             /\ ~ Held(new.ticker)
             /\ new.shares = JsMax(Num(1), JsFloor(JsDiv(JsMul(capital, Frac(1, 10)), price)))
             /\ new.shares.k = "fin" /\ new.shares.d = 1 /\ new.shares.n >= 1
             /\ ~ JsGt(JsMul(new.shares, price), capital)
             /\ capital' = capital
             /\ searchQuery' = <<>> /\ ~ isSearchOpen'
      ]_vars

\* list without its i-th element
Without(list, i) == SubSeq(list, 1, i - 1) \o SubSeq(list, i + 1, Len(list))

\* C29: removeAsset(ticker) removes exactly the holding with that ticker and
\* updateShares(ticker, n) with n >= 0 changes only that holding's share
\* count; every other holding and the capital are unchanged, and an edit
\* naming a ticker that is not held changes nothing.
C29_EditFrame ==
    [][\A t \in Tickers(assets) :
          /\ removeAsset(t) =>
                /\ capital' = capital
                /\ IF Held(t)
                   THEN \E i \in 1..Len(portfolio) :
                          /\ portfolio[i].ticker = t
                          /\ portfolio' = Without(portfolio, i)
                   ELSE portfolio' = portfolio
          /\ \A n \in ShareInputs :
                (updateShares(t, n) /\ ~ JsLt(n, Num(0))) =>
                   /\ capital' = capital
                   /\ IF Held(t)
                      THEN \E i \in 1..Len(portfolio) :
                             /\ portfolio[i].ticker = t
                             /\ portfolio' = [portfolio EXCEPT ![i].shares = n]
                      ELSE portfolio' = portfolio
      ]_vars

\* ---- weighted risk ----

HeldRisks == {AssetOf(portfolio[i].ticker).riskScore : i \in 1..Len(portfolio)}

\* C30: whenever metrics are shown, avgRisk lies between the smallest and
\* the largest riskScore of the holdings, hence in [1,5], also when
\* holdings have 0 shares.
C30_AvgRiskInRange ==
    metrics # Null =>
        LET avgRisk == metrics[1].avgRisk
        IN  /\ avgRisk.k = "fin"
            /\ \E lo, hi \in HeldRisks :
                  /\ \A r \in HeldRisks : lo <= r /\ r <= hi
                  /\ ~ JsLt(avgRisk, Num(lo)) /\ ~ JsGt(avgRisk, Num(hi))
            /\ ~ JsLt(avgRisk, Num(1)) /\ ~ JsGt(avgRisk, Num(5))

=============================================================================
